---- MODULE Spec2Model ----
(***************************************************************************)
(* Multiplayer tic-tac-toe of src/gamehub.jsx (TicTacToeMultiplayer): the  *)
(* match documents held by the remote store, and for every user the React  *)
(* state of the component (current game id, the cached copy of the         *)
(* document, the lobby list, the modal).  Every handler is one action; a   *)
(* handler that awaits a read before it writes (leaveGame) is two.         *)
(* The Qibla compass page of src/unnamed/part_000 is modelled beside it:   *)
(* getQiblaAngle in fixed-point arithmetic, and the page with its position *)
(* fix and its deviceorientation listener.  TicTacToeSinglePlayer of       *)
(* src/gamehub.jsx is modelled with its delayed computer move.             *)
(***************************************************************************)
EXTENDS Integers, Sequences, FiniteSets, TLC

\* ---------------------------------------------------------------- bounds
\* Number of successful store writes (create, join, move, reset, leave) in a run.
MaxWrites == 4
\* Number of successful store writes in a run that starts from a match under way.
MaxMidWrites == 2
\* A run that starts from a match under way starts with cells 0 .. MaxMidFree - 1
\* free or taken and every other cell taken.
MaxMidFree == 2
\* Number of leaveGame calls in a run.
MaxLeaves == 1
\* The squares the users click are 0 .. MaxCell.
MaxCell == 1
\* Number of successful store writes in a run of joins and leaves alone.
MaxLeaveWrites == 5
\* Number of leaveGame calls in a run of joins and leaves alone.
MaxLeaveLeaves == 2
\* Number of store calls of the handlers (applied or failed) in a run in which
\* the store may be unavailable.
MaxFailCalls == 4
\* Number of accepted moves in a run of a match played from the empty board.
MaxPlayMoves == 9
\* In such a run a player clicks one of the first MaxPlayChoice free squares.
MaxPlayChoice == 4
\* The clock of a device reads 0 .. MaxClock.
MaxClock == 1
\* Number of successful store writes in a run with clocks.
MaxClockWrites == 3
\* Number of clicks on squares in a run of the single-player game.
MaxSingleClicks == 4
\* Number of clicks on Reset Game in a run of the single-player game.
MaxSingleResets == 1
\* Number of setTimeout callbacks of the single-player game that wait to run.
MaxTimers == 2

\* ------------------------------------------------------------- constants
NumCells == 9
Users == {"alice", "bob", "carol"}
Null == "null"
\* useState(null) of currentGameId: no current game.
NoGame == 0
Empty == "_"
Cells == 0 .. (NumCells - 1)
ClickCells == 0 .. MaxCell
\* The ids addDoc hands out, in this order.
GameIds == {1}
EmptyBoard == [i \in Cells |-> Empty]

\* The eight lines of calculateWinner, in the order the loop visits them.
WinLines ==
  << <<0, 1, 2>>, <<3, 4, 5>>, <<6, 7, 8>>,
     <<0, 3, 6>>, <<1, 4, 7>>, <<2, 5, 8>>,
     <<0, 4, 8>>, <<2, 4, 6>> >>

\* squares[a] && squares[a] === squares[b] && squares[a] === squares[c]
LineComplete(squares, k) ==
  /\ squares[WinLines[k][1]] # Empty
  /\ squares[WinLines[k][1]] = squares[WinLines[k][2]]
  /\ squares[WinLines[k][1]] = squares[WinLines[k][3]]

\* The mutant has no Draw branch.
calculateWinnerNoDraw(squares) ==
  LET hit == {k \in 1 .. Len(WinLines) : LineComplete(squares, k)}
  IN  IF hit # {}
      THEN squares[WinLines[CHOOSE k \in hit : \A j \in hit : k <= j][1]]
      ELSE "none"

\* The mutant reads the middle cell twice (a line of two marks wins).
calculateWinnerTwoInLine(squares) ==
  LET hit == {k \in 1 .. Len(WinLines) :
                /\ squares[WinLines[k][1]] # Empty
                /\ squares[WinLines[k][1]] = squares[WinLines[k][2]]}
  IN  IF hit # {}
      THEN squares[WinLines[CHOOSE k \in hit : \A j \in hit : k <= j][1]]
      ELSE IF \A i \in Cells : squares[i] # Empty THEN "Draw" ELSE "none"

\* calculateWinner: the mark of the first complete line, else Draw on a full
\* board, else null ("none").
calculateWinner(squares) ==
  LET hit == {k \in 1 .. Len(WinLines) : LineComplete(squares, k)}
  IN  IF hit # {}
      THEN squares[WinLines[CHOOSE k \in hit : \A j \in hit : k <= j][1]]
      ELSE IF \A i \in Cells : squares[i] # Empty THEN "Draw" ELSE "none"

\* The mutant writes the mover's own mark as the next player.
ToggleStuck(role) == role

\* playerRole === 'X' ? 'O' : 'X'
Toggle(role) == IF role = "X" THEN "O" ELSE "X"

\* ------------------------------------------------- the compass page
\* Angles are fixed-point numbers: Deg units are one degree.  Math.sin and
\* Math.cos are read from a table of the sine of every whole degree, in
\* thousandths, with linear interpolation between two entries; the conversions
\* toRadians and toDegrees are part of Sin, Cos and Atan2, which take and
\* return degrees.
Deg == 10000

\* const qiblaLat = 21.4225; const qiblaLon = 39.8262;
qiblaLat == 214225
qiblaLon == 398262

\* SinTable[d + 1] is the sine of d degrees, in thousandths, for d in 0 .. 90.
SinTable ==
  <<
      0,   17,   35,   52,   70,   87,  105,  122,  139,  156,  174,  191,  208,
    225,  242,  259,  276,  292,  309,  326,  342,  358,  375,  391,  407,  423,
    438,  454,  469,  485,  500,  515,  530,  545,  559,  574,  588,  602,  616,
    629,  643,  656,  669,  682,  695,  707,  719,  731,  743,  755,  766,  777,
    788,  799,  809,  819,  829,  839,  848,  857,  866,  875,  883,  891,  899,
    906,  914,  921,  927,  934,  940,  946,  951,  956,  961,  966,  970,  974,
    978,  982,  985,  988,  990,  993,  995,  996,  998,  999,  999, 1000, 1000
  >>

\* The sine, in thousandths, of an angle a with 0 <= a <= 90 * Deg.
SinQ(a) ==
  LET d == a \div Deg
      f == a % Deg
  IN  IF f = 0 THEN SinTable[d + 1]
      ELSE SinTable[d + 1] + ((SinTable[d + 2] - SinTable[d + 1]) * f) \div Deg

\* Math.sin of an angle a, in thousandths.
Sin(a) ==
  LET r == ((a % (360 * Deg)) + 360 * Deg) % (360 * Deg)
  IN  IF r <= 90 * Deg THEN SinQ(r)
      ELSE IF r <= 180 * Deg THEN SinQ(180 * Deg - r)
      ELSE IF r <= 270 * Deg THEN 0 - SinQ(r - 180 * Deg)
      ELSE 0 - SinQ(360 * Deg - r)

\* Math.cos of an angle a, in thousandths.
Cos(a) == Sin(a + 90 * Deg)

\* The quotient of a by n rounded towards zero.
Quot(a, n) == IF a >= 0 THEN a \div n ELSE 0 - ((0 - a) \div n)

\* Math.atan2(y, x) in degrees, for y and x in millionths: 0 for y = x = 0,
\* else the angle in -180 * Deg .. 180 * Deg of the vector (x, y), found as the
\* whole degree d at which the vector lies between the directions d and d + 1,
\* plus the fraction read from the two cross products.
Atan2(y, x) ==
  IF x = 0 /\ y = 0 THEN 0
  ELSE LET F(d) == Quot(y * Cos(d * Deg) - x * Sin(d * Deg), 200)
           D(d) == Quot(x, 1000) * Cos(d * Deg) + Quot(y, 1000) * Sin(d * Deg)
           Here(d) == F(d) >= 0 /\ F(d + 1) < 0 /\ D(d) > 0
           d == CHOOSE e \in -180 .. 180 :
                  /\ Here(e)
                  /\ \A c \in -180 .. 180 : Here(c) => e <= c
       IN  d * Deg + (Deg * F(d)) \div (F(d) - F(d + 1))

\* The % of JavaScript: the remainder has the sign of the dividend.
JsRem(a, n) == IF a >= 0 THEN a % n ELSE 0 - ((0 - a) % n)

\* The mutant returns brng % 360.
getQiblaAngleNoOffset(lat1, lon1, lat2, lon2) ==
  LET y == Sin(lon2 - lon1) * Cos(lat2)
      x == Quot(Cos(lat1) * Sin(lat2) * 1000
                - Sin(lat1) * Cos(lat2) * Cos(lon2 - lon1), 1000)
      brng == Atan2(y, x)
  IN  JsRem(brng, 360 * Deg)

\* getQiblaAngle(lat1, lon1, lat2, lon2); y and x are in millionths.
getQiblaAngle(lat1, lon1, lat2, lon2) ==
  LET y == Sin(lon2 - lon1) * Cos(lat2)
      x == Quot(Cos(lat1) * Sin(lat2) * 1000
                - Sin(lat1) * Cos(lat2) * Cos(lon2 - lon1), 1000)
      brng == Atan2(y, x)
  IN  JsRem(brng + 360 * Deg, 360 * Deg)

\* qiblaAngle.toFixed(2): the text of a number a >= 0 with two decimals, held
\* as the number of hundredths it reads.
toFixed2(a) == (a + Deg \div 200) \div (Deg \div 100)

\* parseFloat of a text with two decimals.
parseFloat(t) == t * (Deg \div 100)

\* The latitudes and longitudes of the positions the model hands to the page.
Lats == {-90 * Deg, -45 * Deg, 0, qiblaLat, 45 * Deg, 515074, 90 * Deg}
Lons == {-180 * Deg, -90 * Deg, -1278, 0, qiblaLon, 90 * Deg, 180 * Deg}

\* event.alpha of a deviceorientation event: a heading in degrees or null.
NullAlpha == -1
Alphas == {NullAlpha, 0, 90 * Deg, 1234567, 360 * Deg - 1}

\* ------------------------------------------------------------------ state
VARIABLES
  docs,       \* the store: game id -> match document (exists = FALSE: no document)
  nextId,     \* number of documents addDoc has created
  gameId,     \* per user: currentGameId
  view,       \* per user: board, currentPlayer, winner, status, playerRole, opponentId
  notice,     \* per user: the modal ("none" when closed)
  lobby,      \* per user: games, the last collection snapshot
  pending,    \* per user: a snapshot of the subscribed document is due
  leaving,    \* per user: the document leaveGame read, while its write is awaited
  budget,     \* store writes and leaveGame calls the run may still make
  scan,       \* a board handed to calculateWinner and what it returned
  last,       \* the step taken last: the handler, its caller (Null for a push
              \* from the store) and its outcome
  clock,      \* per user: what new Date() returns on the user's device
  lastMoveAt, \* the store: game id -> lastMoveAt of the match document
  brg,        \* the arguments handed to getQiblaAngle and what it returned
  compass,    \* the compass page: the text of #qibla-direction, the rotation of
              \* .compass, the deviceorientation listener, the position fix
  single      \* TicTacToeSinglePlayer: board, xIsNext, winner, the modal, the
              \* boards held by the setTimeout callbacks that have not run, and
              \* the clicks and resets the run may still make

vars == <<docs, nextId, gameId, view, notice, lobby, pending, leaving, budget, scan, last,
          clock, lastMoveAt, brg, compass, single>>

\* A document that does not exist (all fields at a fixed value).
NoDoc ==
  [exists |-> FALSE, player1Id |-> Null, player2Id |-> Null, board |-> EmptyBoard,
   currentPlayer |-> "X", status |-> "waiting", winner |-> "none"]

\* The mutant creates the match in progress.
NewDocInProgress(u) ==
  [exists |-> TRUE, player1Id |-> u, player2Id |-> Null, board |-> EmptyBoard,
   currentPlayer |-> "X", status |-> "inProgress", winner |-> "none"]

\* The document createNewGame hands to addDoc.
NewDoc(u) ==
  [exists |-> TRUE, player1Id |-> u, player2Id |-> Null, board |-> EmptyBoard,
   currentPlayer |-> "X", status |-> "waiting", winner |-> "none"]

\* The useState initial values, also what leaveGame and a vanished game restore.
NoView ==
  [board |-> EmptyBoard, currentPlayer |-> "X", winner |-> "none",
   status |-> "waiting", playerRole |-> Null, opponentId |-> Null]

\* No getDoc result is held: leaveGame is not under way.
NoRead ==
  [game |-> NoGame, exists |-> FALSE, player1Id |-> Null, player2Id |-> Null,
   read |-> FALSE]

\* One entry of the games list: what the lobby renders and hands to joinGame.
LobbyEntry(d) ==
  IF d.exists THEN [exists |-> TRUE, player1Id |-> d.player1Id, status |-> d.status]
  ELSE [exists |-> FALSE, player1Id |-> Null, status |-> "waiting"]

LobbyOf(ds) == [g \in GameIds |-> LobbyEntry(ds[g])]

\* The mutant's store pushes no snapshot after a change.
NotifyNobody(g) == pending

\* Every user whose current game is g has a snapshot due after a change of g.
Notify(g) == [u \in Users |-> IF gameId[u] = g THEN TRUE ELSE pending[u]]

\* No board has been handed to calculateWinner.
NoScan == [squares |-> EmptyBoard, result |-> "unscanned"]

\* getQiblaAngle has not been called.
NoBearing == [lat1 |-> 0, lon1 |-> 0, lat2 |-> 0, lon2 |-> 0, called |-> FALSE, result |-> 0]

\* The compass page as loaded: getLocation has asked for the position, no text
\* and no rotation are set, no deviceorientation listener is registered.
NoCompass ==
  [located |-> "pending", lat |-> 0, lon |-> 0, text |-> 0, rotation |-> 0,
   listening |-> FALSE]

\* TicTacToeSinglePlayer as constructed.
NoSingle ==
  [board |-> EmptyBoard, xIsNext |-> TRUE, winner |-> "none", modalOpen |-> FALSE,
   timers |-> <<>>, clicks |-> 0, resets |-> 0]

Did(op, u, outcome) == [op |-> op, user |-> u, outcome |-> outcome]

Init ==
  /\ docs = [g \in GameIds |-> NoDoc]
  /\ nextId = 0
  /\ gameId = [u \in Users |-> NoGame]
  /\ view = [u \in Users |-> NoView]
  /\ notice = [u \in Users |-> "none"]
  /\ lobby = [u \in Users |-> LobbyOf([g \in GameIds |-> NoDoc])]
  /\ pending = [u \in Users |-> FALSE]
  /\ leaving = [u \in Users |-> NoRead]
  /\ budget = [writes |-> MaxWrites, leaves |-> MaxLeaves]
  /\ scan = NoScan
  /\ last = Did("init", Null, "ok")
  /\ clock = [u \in Users |-> 0]
  /\ lastMoveAt = [g \in GameIds |-> 0]
  /\ brg = NoBearing
  /\ compass = NoCompass
  /\ single = NoSingle

\* ------------------------------------------------------ store subscriptions
\* The mutant has no else-if branch for player2Id.
ViewOfWithoutO(d, u) ==
  [board |-> d.board, currentPlayer |-> d.currentPlayer, winner |-> d.winner,
   status |-> d.status,
   playerRole |-> IF d.player1Id = u THEN "X" ELSE Null,
   opponentId |-> IF d.player1Id = u THEN d.player2Id ELSE Null]

\* The snapshot handler's reading of a document for user u (role and opponent).
ViewOf(d, u) ==
  [board |-> d.board, currentPlayer |-> d.currentPlayer, winner |-> d.winner,
   status |-> d.status,
   playerRole |-> IF d.player1Id = u THEN "X"
                  ELSE IF d.player2Id = u THEN "O" ELSE Null,
   opponentId |-> IF d.player1Id = u THEN d.player2Id
                  ELSE IF d.player2Id = u THEN d.player1Id ELSE Null]

\* The mutant's else branch shows the notice and resets nothing.
SnapshotGoneResetsNothing(u) ==
  /\ gameId[u] # NoGame
  /\ pending[u]
  /\ LET d == docs[gameId[u]] IN
       IF d.exists
       THEN /\ view' = [view EXCEPT ![u] = ViewOf(d, u)]
            /\ notice' = [notice EXCEPT ![u] = IF d.winner # "none" THEN "gameOver" ELSE @]
            /\ last' = Did("snapshot", Null, "exists")
       ELSE /\ view' = view
            /\ notice' = [notice EXCEPT ![u] = "gameEnded"]
            /\ last' = Did("snapshot", Null, "gone")
  /\ gameId' = gameId
  /\ pending' = [pending EXCEPT ![u] = FALSE]
  /\ UNCHANGED <<docs, nextId, lobby, leaving, budget, scan, clock, lastMoveAt, brg, compass, single>>

\* onSnapshot(gameDocRef, ...): the store pushes the current document of u's game.
Snapshot(u) ==
  /\ gameId[u] # NoGame
  /\ pending[u]
  /\ LET d == docs[gameId[u]] IN
       IF d.exists
       THEN /\ view' = [view EXCEPT ![u] = ViewOf(d, u)]
            /\ notice' = [notice EXCEPT ![u] = IF d.winner # "none" THEN "gameOver" ELSE @]
            /\ gameId' = gameId
            /\ last' = Did("snapshot", Null, "exists")
       ELSE /\ view' = [view EXCEPT ![u] = NoView]
            /\ notice' = [notice EXCEPT ![u] = "gameEnded"]
            /\ gameId' = [gameId EXCEPT ![u] = NoGame]
            /\ last' = Did("snapshot", Null, "gone")
  /\ pending' = [pending EXCEPT ![u] = FALSE]
  /\ UNCHANGED <<docs, nextId, lobby, leaving, budget, scan, clock, lastMoveAt, brg, compass, single>>

\* onSnapshot(gamesCollectionRef, ...): the store pushes the list of games.  The
\* list is read by the lobby alone, which is rendered while there is no current
\* game; the model delivers it while the lobby is rendered.
LobbySnapshot(u) ==
  /\ gameId[u] = NoGame
  /\ lobby[u] # LobbyOf(docs)
  /\ lobby' = [lobby EXCEPT ![u] = LobbyOf(docs)]
  /\ last' = Did("lobby", Null, "ok")
  /\ UNCHANGED <<docs, nextId, gameId, view, notice, pending, leaving, budget, scan, clock, lastMoveAt, brg, compass, single>>

\* ---------------------------------------------------------------- handlers
\* The catch block of a handler: the modal shows the error, nothing else changes.
\* The store rejects updateDoc on a document that does not exist.
Failed(op, u) ==
  /\ notice' = [notice EXCEPT ![u] = "error"]
  /\ last' = Did(op, u, "failed")
  /\ UNCHANGED <<docs, nextId, gameId, view, lobby, pending, leaving, budget, scan, clock, lastMoveAt, brg, compass, single>>

\* createNewGame (the button is in the lobby, shown while there is no current game).
CreateNewGame(u) ==
  /\ gameId[u] = NoGame
  /\ nextId + 1 \in GameIds
  /\ budget.writes > 0
  /\ docs' = [docs EXCEPT ![nextId + 1] = NewDoc(u)]
  /\ nextId' = nextId + 1
  /\ gameId' = [gameId EXCEPT ![u] = nextId + 1]
  /\ pending' = [pending EXCEPT ![u] = TRUE]
  /\ budget' = [budget EXCEPT !.writes = @ - 1]
  /\ last' = Did("create", u, "ok")
  /\ lastMoveAt' = [lastMoveAt EXCEPT ![nextId + 1] = clock[u]]
  /\ UNCHANGED <<view, notice, lobby, leaving, scan, clock, brg, compass, single>>

\* The lobby renders the Join button of a listed game.
JoinButtonShown(u, g) ==
  /\ gameId[u] = NoGame
  /\ lobby[u][g].exists
  /\ lobby[u][g].status = "waiting"
  /\ lobby[u][g].player1Id # u

\* The mutant makes the joiner player 1 and the former player 1 player 2.
JoinGameAsPlayer1(u, g) ==
  /\ JoinButtonShown(u, g)
  /\ g # gameId[u]
  /\ lobby[u][g].player1Id # u
  /\ IF docs[g].exists
     THEN /\ budget.writes > 0
          /\ docs' = [docs EXCEPT ![g].player1Id = u,
                                  ![g].player2Id = docs[g].player1Id,
                                  ![g].status = "inProgress"]
          /\ gameId' = [gameId EXCEPT ![u] = g]
          /\ pending' = [Notify(g) EXCEPT ![u] = TRUE]
          /\ budget' = [budget EXCEPT !.writes = @ - 1]
          /\ last' = Did("join", u, "ok")
          /\ lastMoveAt' = [lastMoveAt EXCEPT ![g] = clock[u]]
          /\ UNCHANGED <<nextId, view, notice, lobby, leaving, scan, clock, brg, compass, single>>
     ELSE Failed("join", u)

\* The mutant's join also writes currentPlayer O.
JoinGameGivesTurnToO(u, g) ==
  /\ JoinButtonShown(u, g)
  /\ IF docs[g].exists
     THEN /\ budget.writes > 0
          /\ docs' = [docs EXCEPT ![g].player2Id = u, ![g].status = "inProgress",
                                  ![g].currentPlayer = "O"]
          /\ gameId' = [gameId EXCEPT ![u] = g]
          /\ pending' = [Notify(g) EXCEPT ![u] = TRUE]
          /\ budget' = [budget EXCEPT !.writes = @ - 1]
          /\ last' = Did("join", u, "ok")
          /\ lastMoveAt' = [lastMoveAt EXCEPT ![g] = clock[u]]
          /\ UNCHANGED <<nextId, view, notice, lobby, leaving, scan, clock, brg, compass, single>>
     ELSE Failed("join", u)

\* joinGame(game.id, game.players.player1Id) on a game of the lobby list.  The
\* Join button, which calls it, is rendered for a waiting game of another
\* player; the handler's own test of the player1Id it is handed is modelled for
\* a call on a listed game of the caller as well.
JoinGame(u, g) ==
  /\ gameId[u] = NoGame
  /\ lobby[u][g].exists
  /\ g # gameId[u]
  /\ IF lobby[u][g].player1Id = u
     THEN /\ notice' = [notice EXCEPT ![u] = "cannotJoin"]
          /\ last' = Did("join", u, "rejected")
          /\ UNCHANGED <<docs, nextId, gameId, view, lobby, pending, leaving, budget, scan, clock, lastMoveAt, brg, compass, single>>
     ELSE /\ JoinButtonShown(u, g)
          /\ IF docs[g].exists
             THEN /\ budget.writes > 0
                  /\ docs' = [docs EXCEPT ![g].player2Id = u, ![g].status = "inProgress"]
                  /\ gameId' = [gameId EXCEPT ![u] = g]
                  /\ pending' = [Notify(g) EXCEPT ![u] = TRUE]
                  /\ budget' = [budget EXCEPT !.writes = @ - 1]
                  /\ last' = Did("join", u, "ok")
                  /\ lastMoveAt' = [lastMoveAt EXCEPT ![g] = clock[u]]
                  /\ UNCHANGED <<nextId, view, notice, lobby, leaving, scan, clock, brg, compass, single>>
             ELSE Failed("join", u)

\* The mutant leaves board[i] out of the early return.
MoveRejectedIgnoresCell(u, i) ==
  \/ gameId[u] = NoGame
  \/ view[u].winner # "none"
  \/ view[u].status # "inProgress"
  \/ view[u].currentPlayer # view[u].playerRole

\* The early return of makeMove, as the handler evaluates it on its cached state.
MoveRejected(u, i) ==
  \/ gameId[u] = NoGame
  \/ view[u].winner # "none"
  \/ view[u].board[i] # Empty
  \/ view[u].status # "inProgress"
  \/ view[u].currentPlayer # view[u].playerRole

\* The mutant writes the mover as the winner of every move.
MoveWriteMoverWins(u, i) ==
  LET newBoard == [view[u].board EXCEPT ![i] = view[u].playerRole]
  IN  [board |-> newBoard,
       currentPlayer |-> Toggle(view[u].playerRole),
       winner |-> view[u].playerRole,
       status |-> "finished"]

\* The mutant marks the clicked cell and the one after it.
MoveWriteTwoCells(u, i) ==
  LET newBoard == [j \in Cells |->
                     IF j = i \/ j = (i + 1) % NumCells THEN view[u].playerRole
                     ELSE view[u].board[j]]
      newWinner == calculateWinner(newBoard)
  IN  [board |-> newBoard,
       currentPlayer |-> Toggle(view[u].playerRole),
       winner |-> newWinner,
       status |-> IF newWinner # "none" THEN "finished" ELSE "inProgress"]

\* The mutant never writes status finished.
MoveWriteNeverFinished(u, i) ==
  LET newBoard == [view[u].board EXCEPT ![i] = view[u].playerRole]
      newWinner == calculateWinner(newBoard)
  IN  [board |-> newBoard,
       currentPlayer |-> Toggle(view[u].playerRole),
       winner |-> newWinner,
       status |-> "inProgress"]

\* The fields makeMove hands to updateDoc.
MoveWrite(u, i) ==
  LET newBoard == [view[u].board EXCEPT ![i] = view[u].playerRole]
      newWinner == calculateWinner(newBoard)
  IN  [board |-> newBoard,
       currentPlayer |-> Toggle(view[u].playerRole),
       winner |-> newWinner,
       status |-> IF newWinner # "none" THEN "finished" ELSE "inProgress"]

\* The mutant's makeMove adds the mark to the stored board, not to the board
\* state of the caller.
MakeMoveOnStoredBoard(u, i) ==
  /\ gameId[u] # NoGame
  /\ IF MoveRejected(u, i)
     THEN /\ last' = Did("move", u, "rejected")
          /\ UNCHANGED <<docs, nextId, gameId, view, notice, lobby, pending, leaving, budget, scan, clock, lastMoveAt, brg, compass, single>>
     ELSE IF docs[gameId[u]].exists
     THEN /\ budget.writes > 0
          /\ LET newBoard == [docs[gameId[u]].board EXCEPT ![i] = view[u].playerRole]
                 newWinner == calculateWinner(newBoard) IN
               docs' = [docs EXCEPT ![gameId[u]].board = newBoard,
                                    ![gameId[u]].currentPlayer = Toggle(view[u].playerRole),
                                    ![gameId[u]].winner = newWinner,
                                    ![gameId[u]].status = IF newWinner # "none"
                                                          THEN "finished" ELSE "inProgress"]
          /\ pending' = Notify(gameId[u])
          /\ budget' = [budget EXCEPT !.writes = @ - 1]
          /\ last' = Did("move", u, "ok")
          /\ lastMoveAt' = [lastMoveAt EXCEPT ![gameId[u]] = clock[u]]
          /\ UNCHANGED <<nextId, gameId, view, notice, lobby, leaving, scan, clock, brg, compass, single>>
     ELSE Failed("move", u)

\* The mutant's makeMove also calls setBoard(newBoard).
MakeMoveOptimistic(u, i) ==
  /\ gameId[u] # NoGame
  /\ IF MoveRejected(u, i)
     THEN /\ last' = Did("move", u, "rejected")
          /\ UNCHANGED <<docs, nextId, gameId, view, notice, lobby, pending, leaving, budget, scan, clock, lastMoveAt, brg, compass, single>>
     ELSE IF docs[gameId[u]].exists
     THEN /\ budget.writes > 0
          /\ LET w == MoveWrite(u, i) IN
               /\ docs' = [docs EXCEPT ![gameId[u]].board = w.board,
                                       ![gameId[u]].currentPlayer = w.currentPlayer,
                                       ![gameId[u]].winner = w.winner,
                                       ![gameId[u]].status = w.status]
               /\ view' = [view EXCEPT ![u].board = w.board]
          /\ pending' = Notify(gameId[u])
          /\ budget' = [budget EXCEPT !.writes = @ - 1]
          /\ last' = Did("move", u, "ok")
          /\ lastMoveAt' = [lastMoveAt EXCEPT ![gameId[u]] = clock[u]]
          /\ UNCHANGED <<nextId, gameId, notice, lobby, leaving, scan, clock, brg, compass, single>>
     ELSE Failed("move", u)

\* makeMove(i), for a click on square i of the board of the current game.
MakeMove(u, i) ==
  /\ gameId[u] # NoGame
  /\ IF MoveRejected(u, i)
     THEN /\ last' = Did("move", u, "rejected")
          /\ UNCHANGED <<docs, nextId, gameId, view, notice, lobby, pending, leaving, budget, scan, clock, lastMoveAt, brg, compass, single>>
     ELSE IF docs[gameId[u]].exists
     THEN /\ budget.writes > 0
          /\ LET w == MoveWrite(u, i) IN
               docs' = [docs EXCEPT ![gameId[u]].board = w.board,
                                    ![gameId[u]].currentPlayer = w.currentPlayer,
                                    ![gameId[u]].winner = w.winner,
                                    ![gameId[u]].status = w.status]
          /\ pending' = Notify(gameId[u])
          /\ budget' = [budget EXCEPT !.writes = @ - 1]
          /\ last' = Did("move", u, "ok")
          /\ lastMoveAt' = [lastMoveAt EXCEPT ![gameId[u]] = clock[u]]
          /\ UNCHANGED <<nextId, gameId, view, notice, lobby, leaving, scan, clock, brg, compass, single>>
     ELSE Failed("move", u)

\* The mutant does not test playerRole.
ResetCurrentGameByAnyone(u) ==
  /\ gameId[u] # NoGame
  /\ IF docs[gameId[u]].exists
     THEN /\ budget.writes > 0
          /\ docs' = [docs EXCEPT ![gameId[u]].board = EmptyBoard,
                                  ![gameId[u]].currentPlayer = "X",
                                  ![gameId[u]].winner = "none",
                                  ![gameId[u]].status = "inProgress"]
          /\ notice' = [notice EXCEPT ![u] = "none"]
          /\ pending' = Notify(gameId[u])
          /\ budget' = [budget EXCEPT !.writes = @ - 1]
          /\ last' = Did("reset", u, "ok")
          /\ lastMoveAt' = [lastMoveAt EXCEPT ![gameId[u]] = clock[u]]
          /\ UNCHANGED <<nextId, gameId, view, lobby, leaving, scan, clock, brg, compass, single>>
     ELSE Failed("reset", u)

\* resetCurrentGame (Reset Game, or Play Again in the modal).
ResetCurrentGame(u) ==
  /\ gameId[u] # NoGame
  /\ IF view[u].playerRole = Null
     THEN /\ last' = Did("reset", u, "rejected")
          /\ UNCHANGED <<docs, nextId, gameId, view, notice, lobby, pending, leaving, budget, scan, clock, lastMoveAt, brg, compass, single>>
     ELSE IF docs[gameId[u]].exists
     THEN /\ budget.writes > 0
          /\ docs' = [docs EXCEPT ![gameId[u]].board = EmptyBoard,
                                  ![gameId[u]].currentPlayer = "X",
                                  ![gameId[u]].winner = "none",
                                  ![gameId[u]].status = "inProgress"]
          /\ notice' = [notice EXCEPT ![u] = "none"]
          /\ pending' = Notify(gameId[u])
          /\ budget' = [budget EXCEPT !.writes = @ - 1]
          /\ last' = Did("reset", u, "ok")
          /\ lastMoveAt' = [lastMoveAt EXCEPT ![gameId[u]] = clock[u]]
          /\ UNCHANGED <<nextId, gameId, view, lobby, leaving, scan, clock, brg, compass, single>>
     ELSE Failed("reset", u)

\* leaveGame up to its first await: getDoc(gameDocRef).
LeaveRead(u) ==
  /\ gameId[u] # NoGame
  /\ ~leaving[u].read
  /\ budget.leaves > 0
  /\ budget' = [budget EXCEPT !.leaves = @ - 1]
  /\ leaving' = [leaving EXCEPT ![u] =
                   [game |-> gameId[u],
                    exists |-> docs[gameId[u]].exists,
                    player1Id |-> docs[gameId[u]].player1Id,
                    player2Id |-> docs[gameId[u]].player2Id,
                    read |-> TRUE]]
  /\ last' = Did("leaveRead", u, "ok")
  /\ UNCHANGED <<docs, nextId, gameId, view, notice, lobby, pending, scan, clock, lastMoveAt, brg, compass, single>>

\* The mutant has no deleteDoc branch.
LeaveKindWithoutDelete(u) ==
  IF ~leaving[u].exists THEN "none"
  ELSE IF leaving[u].player1Id = u THEN "promote"
  ELSE IF leaving[u].player2Id = u THEN "remove"
  ELSE "none"

\* What leaveGame does to the store with the document it read.
LeaveKind(u) ==
  IF ~leaving[u].exists THEN "none"
  ELSE IF leaving[u].player1Id = u /\ leaving[u].player2Id = Null THEN "delete"
  ELSE IF leaving[u].player1Id = u THEN "promote"
  ELSE IF leaving[u].player2Id = u THEN "remove"
  ELSE "none"

\* The mutant's updates leave winner as it is.
LeaveDocKeepsWinner(d, u, kind) ==
  IF kind = "delete" THEN NoDoc
  ELSE IF kind = "promote"
  THEN [d EXCEPT !.player1Id = leaving[u].player2Id, !.player2Id = Null,
                 !.status = "waiting"]
  ELSE IF kind = "remove"
  THEN [d EXCEPT !.player2Id = Null, !.status = "waiting"]
  ELSE d

\* The mutant's updates leave players.player2Id as it is.
LeaveDocKeepsPlayer2(d, u, kind) ==
  IF kind = "delete" THEN NoDoc
  ELSE IF kind = "promote"
  THEN [d EXCEPT !.player1Id = leaving[u].player2Id,
                 !.status = "waiting", !.winner = "none"]
  ELSE IF kind = "remove"
  THEN [d EXCEPT !.status = "waiting", !.winner = "none"]
  ELSE d

\* The mutant's promotion leaves players.player1Id as it is.
LeaveDocKeepsPlayer1(d, u, kind) ==
  IF kind = "delete" THEN NoDoc
  ELSE IF kind = "promote"
  THEN [d EXCEPT !.player2Id = Null, !.status = "waiting", !.winner = "none"]
  ELSE IF kind = "remove"
  THEN [d EXCEPT !.player2Id = Null, !.status = "waiting", !.winner = "none"]
  ELSE d

\* The mutant's removal of player 2 clears players.player1Id as well.
LeaveDocRemoveClearsPlayer1(d, u, kind) ==
  IF kind = "delete" THEN NoDoc
  ELSE IF kind = "promote"
  THEN [d EXCEPT !.player1Id = leaving[u].player2Id, !.player2Id = Null,
                 !.status = "waiting", !.winner = "none"]
  ELSE IF kind = "remove"
  THEN [d EXCEPT !.player1Id = Null, !.player2Id = Null,
                 !.status = "waiting", !.winner = "none"]
  ELSE d

\* The mutant's updates also write an empty board.
LeaveDocEmptiesBoard(d, u, kind) ==
  IF kind = "delete" THEN NoDoc
  ELSE IF kind = "promote"
  THEN [d EXCEPT !.player1Id = leaving[u].player2Id, !.player2Id = Null,
                 !.status = "waiting", !.winner = "none", !.board = EmptyBoard]
  ELSE IF kind = "remove"
  THEN [d EXCEPT !.player2Id = Null, !.status = "waiting", !.winner = "none",
                 !.board = EmptyBoard]
  ELSE d

\* The document after leaveGame's write of the given kind.
LeaveDoc(d, u, kind) ==
  IF kind = "delete" THEN NoDoc
  ELSE IF kind = "promote"
  THEN [d EXCEPT !.player1Id = leaving[u].player2Id, !.player2Id = Null,
                 !.status = "waiting", !.winner = "none"]
  ELSE IF kind = "remove"
  THEN [d EXCEPT !.player2Id = Null, !.status = "waiting", !.winner = "none"]
  ELSE d

\* The mutant's local reset does not call setCurrentGameId(null).
LeaveLocalKeepsGame(u) ==
  /\ gameId' = gameId
  /\ view' = [view EXCEPT ![u] = NoView]
  /\ notice' = [notice EXCEPT ![u] = "none"]
  /\ leaving' = [leaving EXCEPT ![u] = NoRead]

\* The local reset that ends leaveGame.
LeaveLocal(u) ==
  /\ gameId' = [gameId EXCEPT ![u] = NoGame]
  /\ view' = [view EXCEPT ![u] = NoView]
  /\ notice' = [notice EXCEPT ![u] = "none"]
  /\ leaving' = [leaving EXCEPT ![u] = NoRead]

\* The rest of leaveGame: the write chosen from what was read, to the document
\* of the game that was current when leaveGame was called, then the local reset.
LeaveWrite(u) ==
  /\ leaving[u].read
  /\ LET g == leaving[u].game
         kind == LeaveKind(u)
     IN  IF kind = "none" \/ (kind = "delete" /\ ~docs[g].exists)
         THEN /\ LeaveLocal(u)
              /\ pending' = [pending EXCEPT ![u] = FALSE]
              /\ last' = Did("leave", u, kind)
              /\ UNCHANGED <<docs, nextId, lobby, budget, scan, clock, lastMoveAt, brg, compass, single>>
         ELSE IF docs[g].exists
         THEN /\ budget.writes > 0
              /\ docs' = [docs EXCEPT ![g] = LeaveDoc(docs[g], u, kind)]
              /\ LeaveLocal(u)
              /\ pending' = [Notify(g) EXCEPT ![u] = FALSE]
              /\ budget' = [budget EXCEPT !.writes = @ - 1]
              /\ last' = Did("leave", u, kind)
              /\ UNCHANGED <<nextId, lobby, scan, clock, lastMoveAt, brg, compass, single>>
         ELSE /\ notice' = [notice EXCEPT ![u] = "error"]
              /\ leaving' = [leaving EXCEPT ![u] = NoRead]
              /\ last' = Did("leave", u, "failed")
              /\ UNCHANGED <<docs, nextId, gameId, view, lobby, pending, budget, scan, clock, lastMoveAt, brg, compass, single>>

Next ==
  \/ \E u \in Users : Snapshot(u)
  \/ \E u \in Users : LobbySnapshot(u)
  \/ \E u \in Users : CreateNewGame(u)
  \/ \E u \in Users, g \in GameIds : JoinGame(u, g)
  \/ \E u \in Users, i \in ClickCells : MakeMove(u, i)
  \/ \E u \in Users : ResetCurrentGame(u)
  \/ \E u \in Users : LeaveRead(u)
  \/ \E u \in Users : LeaveWrite(u)

Spec == Init /\ [][Next]_vars

\* ------------------------------------------------- a match under way
\* Count(b, m): the number of cells of board b that hold m.
Count(b, m) == Cardinality({i \in Cells : b[i] = m})

\* The boards of a match in progress whose free cells are among the first
\* MaxMidFree cells: X and O have moved in turn, X first, no line is complete
\* and a cell is free.  Each is reached from Init by createNewGame, joinGame and
\* accepted moves with every snapshot delivered.
MidBoards ==
  {b \in [Cells -> {Empty, "X", "O"}] :
     /\ \A i \in Cells : b[i] = Empty => i < MaxMidFree
     /\ Count(b, "X") - Count(b, "O") \in {0, 1}
     /\ calculateWinner(b) = "none"}

MidDoc(b) ==
  [exists |-> TRUE, player1Id |-> "alice", player2Id |-> "bob", board |-> b,
   currentPlayer |-> IF Count(b, "X") = Count(b, "O") THEN "X" ELSE "O",
   status |-> "inProgress", winner |-> "none"]

\* alice created game 1, bob joined it from the lobby, they played to board b
\* and have received every snapshot; carol is in the lobby, with the list as it
\* was before bob joined (the next collection snapshot brings it up to date).
InitMid ==
  \E b \in MidBoards :
    /\ docs = [g \in GameIds |-> MidDoc(b)]
    /\ nextId = 1
    /\ gameId = [u \in Users |-> IF u = "carol" THEN NoGame ELSE 1]
    /\ view = [u \in Users |-> IF u = "carol" THEN NoView ELSE ViewOf(MidDoc(b), u)]
    /\ notice = [u \in Users |-> "none"]
    /\ lobby = [u \in Users |->
                 IF u = "alice" THEN LobbyOf([g \in GameIds |-> NoDoc])
                 ELSE LobbyOf([g \in GameIds |-> NewDoc("alice")])]
    /\ pending = [u \in Users |-> FALSE]
    /\ leaving = [u \in Users |-> NoRead]
    /\ budget = [writes |-> MaxMidWrites, leaves |-> MaxLeaves]
    /\ scan = NoScan
    /\ last = Did("snapshot", Null, "exists")
    /\ clock = [u \in Users |-> 0]
    /\ lastMoveAt = [g \in GameIds |-> 0]
    /\ brg = NoBearing
    /\ compass = NoCompass
  /\ single = NoSingle

NextMid ==
  \/ \E u \in Users : Snapshot(u)
  \/ \E u \in Users : LobbySnapshot(u)
  \/ \E u \in Users, g \in GameIds : JoinGame(u, g)
  \/ \E u \in Users, i \in Cells : MakeMove(u, i)
  \/ \E u \in Users : ResetCurrentGame(u)
  \/ \E u \in Users : LeaveRead(u)
  \/ \E u \in Users : LeaveWrite(u)

SpecMid == InitMid /\ [][NextMid]_vars

\* ------------------------------------------------- a match played to the end
\* alice created game 1, bob joined it, both have received the snapshot of the
\* join and no move has been made; carol is in the lobby.
InitPlay ==
  /\ docs = [g \in GameIds |-> MidDoc(EmptyBoard)]
  /\ nextId = 1
  /\ gameId = [u \in Users |-> IF u = "carol" THEN NoGame ELSE 1]
  /\ view = [u \in Users |-> IF u = "carol" THEN NoView ELSE ViewOf(MidDoc(EmptyBoard), u)]
  /\ notice = [u \in Users |-> "none"]
  /\ lobby = [u \in Users |->
               IF u = "alice" THEN LobbyOf([g \in GameIds |-> NoDoc])
               ELSE LobbyOf([g \in GameIds |-> NewDoc("alice")])]
  /\ pending = [u \in Users |-> FALSE]
  /\ leaving = [u \in Users |-> NoRead]
  /\ budget = [writes |-> MaxPlayMoves, leaves |-> 0]
  /\ scan = NoScan
  /\ last = Did("snapshot", Null, "exists")
  /\ clock = [u \in Users |-> 0]
  /\ lastMoveAt = [g \in GameIds |-> 0]
  /\ brg = NoBearing
  /\ compass = NoCompass
  /\ single = NoSingle

\* makeMove(i) for a click that passes the checks of makeMove, made by the
\* player whose mark is the stored currentPlayer while the stored game has no
\* winner, on one of the first MaxPlayChoice free squares of the board the
\* player sees: every move is accepted, the marks of the moves alternate, X
\* first, and no move follows a completed line.
MakeMoveInTurn(u, i) ==
  /\ gameId[u] # NoGame
  /\ ~MoveRejected(u, i)
  /\ docs[gameId[u]].currentPlayer = view[u].playerRole
  /\ docs[gameId[u]].winner = "none"
  /\ Cardinality({j \in Cells : j < i /\ view[u].board[j] = Empty}) < MaxPlayChoice
  /\ MakeMove(u, i)

NextPlay ==
  \/ \E u \in Users : Snapshot(u)
  \/ \E u \in Users, i \in Cells : MakeMoveInTurn(u, i)

SpecPlay == InitPlay /\ [][NextPlay]_vars

\* ------------------------------------------------- calculateWinner alone
\* Any board of nine cells is handed to calculateWinner.
InitScan ==
  /\ docs = [g \in GameIds |-> NoDoc]
  /\ nextId = 0
  /\ gameId = [u \in Users |-> NoGame]
  /\ view = [u \in Users |-> NoView]
  /\ notice = [u \in Users |-> "none"]
  /\ lobby = [u \in Users |-> LobbyOf([g \in GameIds |-> NoDoc])]
  /\ pending = [u \in Users |-> FALSE]
  /\ leaving = [u \in Users |-> NoRead]
  /\ budget = [writes |-> 0, leaves |-> 0]
  /\ scan \in [squares : [Cells -> {Empty, "X", "O"}], result : {"unscanned"}]
  /\ last = Did("init", Null, "ok")
  /\ clock = [u \in Users |-> 0]
  /\ lastMoveAt = [g \in GameIds |-> 0]
  /\ brg = NoBearing
  /\ compass = NoCompass
  /\ single = NoSingle

\* const newWinner = calculateWinner(newBoard)
Scan ==
  /\ scan.result = "unscanned"
  /\ scan' = [scan EXCEPT !.result = calculateWinner(scan.squares)]
  /\ last' = Did("scan", Null, "ok")
  /\ UNCHANGED <<docs, nextId, gameId, view, notice, lobby, pending, leaving, budget, clock, lastMoveAt, brg, compass, single>>

NextScan == Scan

SpecScan == InitScan /\ [][NextScan]_vars

\* ------------------------------------------------- leaving the page
\* The Back to Hub button: onBack sets currentPage of App to 'hub' and the
\* component is unmounted; the cleanup of both effects unsubscribes.  The state
\* of the component is lost, and a later mount starts from the useState
\* defaults.  The stored documents are left as they are.  The model takes the
\* click while no leaveGame of the user is under way.
BackToHub(u) ==
  /\ ~leaving[u].read
  /\ gameId' = [gameId EXCEPT ![u] = NoGame]
  /\ view' = [view EXCEPT ![u] = NoView]
  /\ notice' = [notice EXCEPT ![u] = "none"]
  /\ lobby' = [lobby EXCEPT ![u] = LobbyOf([g \in GameIds |-> NoDoc])]
  /\ pending' = [pending EXCEPT ![u] = FALSE]
  /\ last' = Did("back", u, "ok")
  /\ UNCHANGED <<docs, nextId, leaving, budget, scan, clock, lastMoveAt, brg, compass, single>>

NextExit ==
  \/ \E u \in Users : Snapshot(u)
  \/ \E u \in Users : LobbySnapshot(u)
  \/ \E u \in Users : CreateNewGame(u)
  \/ \E u \in Users, g \in GameIds : JoinGame(u, g)
  \/ \E u \in Users, i \in ClickCells : MakeMove(u, i)
  \/ \E u \in Users : ResetCurrentGame(u)
  \/ \E u \in Users : LeaveRead(u)
  \/ \E u \in Users : LeaveWrite(u)
  \/ \E u \in Users : BackToHub(u)

SpecExit == Init /\ [][NextExit]_vars

\* ------------------------------------------------- joins and leaves alone
\* The component as constructed; the users create, join and leave, and click
\* no square and no Reset.
InitLeave ==
  /\ docs = [g \in GameIds |-> NoDoc]
  /\ nextId = 0
  /\ gameId = [u \in Users |-> NoGame]
  /\ view = [u \in Users |-> NoView]
  /\ notice = [u \in Users |-> "none"]
  /\ lobby = [u \in Users |-> LobbyOf([g \in GameIds |-> NoDoc])]
  /\ pending = [u \in Users |-> FALSE]
  /\ leaving = [u \in Users |-> NoRead]
  /\ budget = [writes |-> MaxLeaveWrites, leaves |-> MaxLeaveLeaves]
  /\ scan = NoScan
  /\ last = Did("init", Null, "ok")
  /\ clock = [u \in Users |-> 0]
  /\ lastMoveAt = [g \in GameIds |-> 0]
  /\ brg = NoBearing
  /\ compass = NoCompass
  /\ single = NoSingle

NextLeave ==
  \/ \E u \in Users : Snapshot(u)
  \/ \E u \in Users : LobbySnapshot(u)
  \/ \E u \in Users : CreateNewGame(u)
  \/ \E u \in Users, g \in GameIds : JoinGame(u, g)
  \/ \E u \in Users : LeaveRead(u)
  \/ \E u \in Users : LeaveWrite(u)

SpecLeave == InitLeave /\ [][NextLeave]_vars

\* ------------------------------------------------- the store unavailable
\* The mutant's catch block also forgets the current game.
UnavailableDropsGame(op, u) ==
  /\ budget.writes > 0
  /\ notice' = [notice EXCEPT ![u] = "error"]
  /\ gameId' = [gameId EXCEPT ![u] = NoGame]
  /\ budget' = [budget EXCEPT !.writes = @ - 1]
  /\ last' = Did(op, u, "failed")
  /\ UNCHANGED <<docs, nextId, view, lobby, pending, scan, clock, lastMoveAt, brg, compass, single>>

\* The awaited store call of handler op rejects: the catch block shows the
\* error in the modal and the statements after the await are not run.
Unavailable(op, u) ==
  /\ budget.writes > 0
  /\ notice' = [notice EXCEPT ![u] = "error"]
  /\ budget' = [budget EXCEPT !.writes = @ - 1]
  /\ last' = Did(op, u, "failed")
  /\ UNCHANGED <<docs, nextId, gameId, view, lobby, pending, scan, clock, lastMoveAt, brg, compass, single>>

\* createNewGame, addDoc rejecting.
CreateFails(u) ==
  /\ gameId[u] = NoGame
  /\ Unavailable("create", u)
  /\ UNCHANGED leaving

\* joinGame from the Join button, updateDoc rejecting.
JoinFails(u, g) ==
  /\ JoinButtonShown(u, g)
  /\ Unavailable("join", u)
  /\ UNCHANGED leaving

\* makeMove(i) past its early return, updateDoc rejecting.
MoveFails(u, i) ==
  /\ gameId[u] # NoGame
  /\ ~MoveRejected(u, i)
  /\ Unavailable("move", u)
  /\ UNCHANGED leaving

\* resetCurrentGame of a user with a role, updateDoc rejecting.
ResetFails(u) ==
  /\ gameId[u] # NoGame
  /\ view[u].playerRole # Null
  /\ Unavailable("reset", u)
  /\ UNCHANGED leaving

\* leaveGame, getDoc rejecting.
LeaveReadFails(u) ==
  /\ gameId[u] # NoGame
  /\ ~leaving[u].read
  /\ budget.leaves > 0
  /\ notice' = [notice EXCEPT ![u] = "error"]
  /\ budget' = [budget EXCEPT !.leaves = @ - 1]
  /\ last' = Did("leaveRead", u, "failed")
  /\ UNCHANGED <<docs, nextId, gameId, view, lobby, pending, leaving, scan, clock, lastMoveAt, brg, compass, single>>

\* leaveGame after getDoc, deleteDoc or updateDoc rejecting.
LeaveWriteFails(u) ==
  /\ leaving[u].read
  /\ LeaveKind(u) # "none"
  /\ Unavailable("leave", u)
  /\ leaving' = [leaving EXCEPT ![u] = NoRead]

\* The component as constructed, with a store that may reject any call.
InitFail ==
  /\ docs = [g \in GameIds |-> NoDoc]
  /\ nextId = 0
  /\ gameId = [u \in Users |-> NoGame]
  /\ view = [u \in Users |-> NoView]
  /\ notice = [u \in Users |-> "none"]
  /\ lobby = [u \in Users |-> LobbyOf([g \in GameIds |-> NoDoc])]
  /\ pending = [u \in Users |-> FALSE]
  /\ leaving = [u \in Users |-> NoRead]
  /\ budget = [writes |-> MaxFailCalls, leaves |-> MaxLeaves]
  /\ scan = NoScan
  /\ last = Did("init", Null, "ok")
  /\ clock = [u \in Users |-> 0]
  /\ lastMoveAt = [g \in GameIds |-> 0]
  /\ brg = NoBearing
  /\ compass = NoCompass
  /\ single = NoSingle

NextFail ==
  \/ \E u \in Users : Snapshot(u)
  \/ \E u \in Users : LobbySnapshot(u)
  \/ \E u \in Users : CreateNewGame(u)
  \/ \E u \in Users, g \in GameIds : JoinGame(u, g)
  \/ \E u \in Users, i \in ClickCells : MakeMove(u, i)
  \/ \E u \in Users : ResetCurrentGame(u)
  \/ \E u \in Users : LeaveRead(u)
  \/ \E u \in Users : LeaveWrite(u)
  \/ \E u \in Users : CreateFails(u)
  \/ \E u \in Users, g \in GameIds : JoinFails(u, g)
  \/ \E u \in Users, i \in ClickCells : MoveFails(u, i)
  \/ \E u \in Users : ResetFails(u)
  \/ \E u \in Users : LeaveReadFails(u)
  \/ \E u \in Users : LeaveWriteFails(u)

SpecFail == InitFail /\ [][NextFail]_vars

\* ------------------------------------------------- the store delivers
\* The store delivers the current document to every subscriber: a snapshot
\* that is due to a user is received in the end.  The handlers are called or
\* not, as the users choose.
Delivery == \A u \in Users : WF_vars(Snapshot(u))

SpecLive == Init /\ [][Next]_vars /\ Delivery

\* ------------------------------------------------- the clocks of the devices
\* new Date() reads the clock of the device of the caller.  The clocks of the
\* devices of different users are not synchronised: each starts at any value
\* and each goes forward on its own.
InitClock ==
  /\ docs = [g \in GameIds |-> NoDoc]
  /\ nextId = 0
  /\ gameId = [u \in Users |-> NoGame]
  /\ view = [u \in Users |-> NoView]
  /\ notice = [u \in Users |-> "none"]
  /\ lobby = [u \in Users |-> LobbyOf([g \in GameIds |-> NoDoc])]
  /\ pending = [u \in Users |-> FALSE]
  /\ leaving = [u \in Users |-> NoRead]
  /\ budget = [writes |-> MaxClockWrites, leaves |-> MaxLeaves]
  /\ scan = NoScan
  /\ last = Did("init", Null, "ok")
  /\ clock \in [Users -> 0 .. MaxClock]
  /\ lastMoveAt = [g \in GameIds |-> 0]
  /\ brg = NoBearing
  /\ compass = NoCompass
  /\ single = NoSingle

\* Time passes on the device of u.
Tick(u) ==
  /\ clock[u] < MaxClock
  /\ clock' = [clock EXCEPT ![u] = @ + 1]
  /\ last' = Did("tick", u, "ok")
  /\ UNCHANGED <<docs, nextId, gameId, view, notice, lobby, pending, leaving, budget, scan,
                 lastMoveAt, brg, compass, single>>

NextClock ==
  \/ \E u \in Users : Snapshot(u)
  \/ \E u \in Users : LobbySnapshot(u)
  \/ \E u \in Users : CreateNewGame(u)
  \/ \E u \in Users, g \in GameIds : JoinGame(u, g)
  \/ \E u \in Users, i \in ClickCells : MakeMove(u, i)
  \/ \E u \in Users : ResetCurrentGame(u)
  \/ \E u \in Users : LeaveRead(u)
  \/ \E u \in Users : LeaveWrite(u)
  \/ \E u \in Users : Tick(u)

SpecClock == InitClock /\ [][NextClock]_vars

\* ------------------------------------------------- the compass page at work
\* The game variables, which the compass page does not touch.
GameUnchanged ==
  UNCHANGED <<docs, nextId, gameId, view, notice, lobby, pending, leaving, budget, scan,
              clock, lastMoveAt, single>>

\* showPosition(position): the success callback of getCurrentPosition.
ShowPosition(lat, lon) ==
  /\ compass.located = "pending"
  /\ LET qiblaAngle == getQiblaAngle(lat, lon, qiblaLat, qiblaLon) IN
       compass' = [located |-> "shown", lat |-> lat, lon |-> lon,
                   text |-> toFixed2(qiblaAngle),
                   rotation |-> qiblaAngle,
                   listening |-> TRUE]
  /\ last' = Did("position", Null, "ok")
  /\ UNCHANGED brg
  /\ GameUnchanged

\* showError(error): the error callback of getCurrentPosition alerts.
ShowError ==
  /\ compass.located = "pending"
  /\ compass' = [compass EXCEPT !.located = "error"]
  /\ last' = Did("position", Null, "failed")
  /\ UNCHANGED brg
  /\ GameUnchanged

\* The mutant has no test of alpha; null - as a number - is 0.
handleOrientationNoNullTest(alpha) ==
  [compass EXCEPT !.rotation = parseFloat(compass.text)
                               - (IF alpha = NullAlpha THEN 0 ELSE alpha)]

\* handleOrientation(event): the page after the handler has run.
handleOrientation(alpha) ==
  IF alpha # NullAlpha
  THEN [compass EXCEPT !.rotation = parseFloat(compass.text) - alpha]
  ELSE compass

\* The browser dispatches a deviceorientation event; handleOrientation runs if
\* showPosition has registered it.
DeviceOrientation(alpha) ==
  /\ IF compass.listening
     THEN /\ compass' = handleOrientation(alpha)
          /\ last' = Did("orientation", Null, IF alpha = NullAlpha THEN "null" ELSE "ok")
     ELSE /\ compass' = compass
          /\ last' = Did("orientation", Null, "unheard")
  /\ UNCHANGED brg
  /\ GameUnchanged

InitCompass == Init

NextCompass ==
  \/ \E lat \in Lats, lon \in Lons : ShowPosition(lat, lon)
  \/ ShowError
  \/ \E alpha \in Alphas : DeviceOrientation(alpha)

SpecCompass == InitCompass /\ [][NextCompass]_vars

\* ------------------------------------------------- getQiblaAngle alone
\* Any two positions are handed to getQiblaAngle.
InitBearing ==
  /\ docs = [g \in GameIds |-> NoDoc]
  /\ nextId = 0
  /\ gameId = [u \in Users |-> NoGame]
  /\ view = [u \in Users |-> NoView]
  /\ notice = [u \in Users |-> "none"]
  /\ lobby = [u \in Users |-> LobbyOf([g \in GameIds |-> NoDoc])]
  /\ pending = [u \in Users |-> FALSE]
  /\ leaving = [u \in Users |-> NoRead]
  /\ budget = [writes |-> 0, leaves |-> 0]
  /\ scan = NoScan
  /\ last = Did("init", Null, "ok")
  /\ clock = [u \in Users |-> 0]
  /\ lastMoveAt = [g \in GameIds |-> 0]
  /\ brg \in [lat1 : Lats, lon1 : Lons, lat2 : Lats, lon2 : Lons,
               called : {FALSE}, result : {0}]
  /\ compass = NoCompass
  /\ single = NoSingle

\* const qiblaAngle = getQiblaAngle(userLat, userLon, qiblaLat, qiblaLon)
Bearing ==
  /\ ~brg.called
  /\ brg' = [brg EXCEPT !.called = TRUE,
                        !.result = getQiblaAngle(brg.lat1, brg.lon1, brg.lat2, brg.lon2)]
  /\ last' = Did("bearing", Null, "ok")
  /\ UNCHANGED compass
  /\ GameUnchanged

NextBearing == Bearing

SpecBearing == InitBearing /\ [][NextBearing]_vars

\* ------------------------------------------------- TicTacToeSinglePlayer
\* What TicTacToeSinglePlayer does not touch.
OthersUnchanged ==
  UNCHANGED <<docs, nextId, gameId, view, notice, lobby, pending, leaving, budget, scan,
              clock, lastMoveAt, brg, compass>>

\* handleClick(i): a click on square i.  (The calculateWinner of the component,
\* lines 59-76, is the calculateWinner of TicTacToeMultiplayer.)
handleClick(i) ==
  /\ single.clicks < MaxSingleClicks
  /\ IF single.winner # "none" \/ single.board[i] # Empty
     THEN /\ single' = [single EXCEPT !.clicks = @ + 1]
          /\ last' = Did("click", Null, "rejected")
     ELSE LET newBoard == [single.board EXCEPT ![i] = IF single.xIsNext THEN "X" ELSE "O"]
              currentWinner == calculateWinner(newBoard)
          IN  /\ (currentWinner = "none" /\ ~single.xIsNext) => Len(single.timers) < MaxTimers
              /\ single' = [single EXCEPT
                              !.board = newBoard,
                              !.xIsNext = ~single.xIsNext,
                              !.winner = IF currentWinner # "none" THEN currentWinner ELSE @,
                              !.modalOpen = IF currentWinner # "none" THEN TRUE ELSE @,
                              !.timers = IF currentWinner = "none" /\ ~single.xIsNext
                                         THEN Append(@, newBoard) ELSE @,
                              !.clicks = @ + 1]
              /\ last' = Did("click", Null, "ok")
  /\ OthersUnchanged

\* The setTimeout callback that was set first runs: makeComputerMove(currentBoard)
\* with the board the callback holds; k is the square Math.random picks among
\* the free squares of that board.
makeComputerMove(k) ==
  /\ single.timers # <<>>
  /\ LET currentBoard == Head(single.timers) IN
       IF \E j \in Cells : currentBoard[j] = Empty
       THEN /\ currentBoard[k] = Empty
            /\ LET newBoard == [currentBoard EXCEPT ![k] = "O"]
                   currentWinner == calculateWinner(newBoard)
               IN  single' = [single EXCEPT
                                !.board = newBoard,
                                !.xIsNext = TRUE,
                                !.winner = IF currentWinner # "none" THEN currentWinner ELSE @,
                                !.modalOpen = IF currentWinner # "none" THEN TRUE ELSE @,
                                !.timers = Tail(@)]
            /\ last' = Did("computer", Null, "ok")
       ELSE /\ k = 0
            /\ single' = [single EXCEPT !.timers = Tail(@)]
            /\ last' = Did("computer", Null, "none")
  /\ OthersUnchanged

\* resetGame: the Reset Game button.  The callbacks that wait are not cleared.
resetGame ==
  /\ single.resets < MaxSingleResets
  /\ single' = [single EXCEPT !.board = EmptyBoard, !.xIsNext = TRUE, !.winner = "none",
                              !.modalOpen = FALSE, !.resets = @ + 1]
  /\ last' = Did("singleReset", Null, "ok")
  /\ OthersUnchanged

InitSingle == Init

NextSingle ==
  \/ \E i \in Cells : handleClick(i)
  \/ \E k \in Cells : makeComputerMove(k)
  \/ resetGame

SpecSingle == InitSingle /\ [][NextSingle]_vars

\* ================================================================ claims
\* A step in which makeMove(i) of user u passed its checks and its write was applied.
AcceptedMove(u, i) ==
  /\ last'.op = "move" /\ last'.user = u /\ last'.outcome = "ok"
  /\ MakeMove(u, i)

\* The cells in which two boards differ.
Diff(b, c) == {i \in Cells : b[i] # c[i]}

\* The mark that is not r.
OtherMark(r) == CHOOSE m \in {"X", "O"} : m # r

\* C1 as claimed: every accepted move changes exactly one cell of the stored
\* board, the clicked one, from empty to the mover's role (so no stored mark is
\* ever changed by a move), whatever the mover's cache.
C1_AsClaimed ==
  [][\A u \in Users, i \in Cells :
       AcceptedMove(u, i) =>
         /\ Diff(docs[gameId[u]].board, docs'[gameId[u]].board) = {i}
         /\ docs[gameId[u]].board[i] = Empty
         /\ docs'[gameId[u]].board[i] = view[u].playerRole]_vars

\* C1 amended: an accepted move whose caller's cached board equals the stored
\* board changes exactly one stored cell, the clicked one, from empty to the
\* mover's role, and changes no stored mark.
C1_FreshMoveChangesOneCell ==
  [][\A u \in Users, i \in Cells :
       (AcceptedMove(u, i) /\ view[u].board = docs[gameId[u]].board) =>
         /\ Diff(docs[gameId[u]].board, docs'[gameId[u]].board) = {i}
         /\ docs[gameId[u]].board[i] = Empty
         /\ docs'[gameId[u]].board[i] = view[u].playerRole
         /\ \A j \in Cells :
              docs[gameId[u]].board[j] # Empty =>
                docs'[gameId[u]].board[j] = docs[gameId[u]].board[j]]_vars

\* C1 witness: the first move of a match has been written (the stored board was
\* empty, as was the mover's cache).
C1_Witness ==
  /\ last.op = "move" /\ last.outcome = "ok"
  /\ budget.writes = MaxWrites - 3
  /\ Count(docs[1].board, "X") = 1
  /\ Count(docs[1].board, "O") = 0

\* C2 as claimed: every accepted move toggles the stored currentPlayer.
C2_AsClaimed ==
  [][\A u \in Users, i \in Cells :
       AcceptedMove(u, i) =>
         docs'[gameId[u]].currentPlayer # docs[gameId[u]].currentPlayer]_vars

\* C2 amended: every accepted move sets the stored currentPlayer to the mark
\* other than the mover's role, which differs from the currentPlayer the mover
\* has cached; the stored currentPlayer toggles when the cached one is current.
C2_MoveSetsOtherMark ==
  [][\A u \in Users, i \in Cells :
       AcceptedMove(u, i) =>
         /\ view[u].playerRole \in {"X", "O"}
         /\ docs'[gameId[u]].currentPlayer = OtherMark(view[u].playerRole)
         /\ docs'[gameId[u]].currentPlayer # view[u].currentPlayer
         /\ view[u].currentPlayer = docs[gameId[u]].currentPlayer =>
              docs'[gameId[u]].currentPlayer # docs[gameId[u]].currentPlayer]_vars

\* C2 witness: O has answered X's first move, so the stored currentPlayer went
\* from X to O and back to X.
C2_Witness ==
  /\ last.op = "move" /\ last.outcome = "ok" /\ last.user = docs[1].player2Id
  /\ budget.writes = MaxWrites - 4
  /\ Count(docs[1].board, "X") = 1
  /\ Count(docs[1].board, "O") = 1
  /\ docs[1].currentPlayer = "X"

\* C3: makeMove(i) returns at once, writing nothing to the store, changing no
\* local state and showing no notice, when in the caller's cache the status is
\* not inProgress, a winner is set, cell i is taken or the caller's role is not
\* currentPlayer (a caller without a role included).
C3_RejectedMoveIsNoOp ==
  [][\A u \in Users, i \in Cells :
       (/\ last'.op = "move" /\ last'.user = u
        /\ \/ view[u].status # "inProgress"
           \/ view[u].winner # "none"
           \/ view[u].board[i] # Empty
           \/ view[u].playerRole # view[u].currentPlayer
        /\ MakeMove(u, i)) =>
         /\ last'.outcome = "rejected"
         /\ UNCHANGED <<docs, nextId, gameId, view, notice, lobby, pending,
                        leaving, budget>>]_vars

\* C3 witness: a user whose turn it is in an unfinished match in progress had a
\* move rejected, which only a click on a taken cell does.
C3_Witness ==
  /\ last.op = "move" /\ last.outcome = "rejected"
  /\ \E u \in Users :
       /\ last.user = u
       /\ gameId[u] # NoGame
       /\ view[u].status = "inProgress"
       /\ view[u].winner = "none"
       /\ view[u].playerRole = view[u].currentPlayer
       /\ \E i \in Cells : view[u].board[i] # Empty

\* C4: an accepted move of a caller with role r on cell i writes the caller's
\* cached board with cell i set to r, currentPlayer the other mark, winner the
\* line scan of that board, and status finished if that winner is set, else
\* inProgress.
C4_AcceptedMoveWrite ==
  [][\A u \in Users, i \in Cells :
       AcceptedMove(u, i) =>
         LET r == view[u].playerRole
             newBoard == [view[u].board EXCEPT ![i] = r]
             d == docs'[gameId[u]]
         IN  /\ d.board = newBoard
             /\ d.currentPlayer = OtherMark(r)
             /\ d.winner = calculateWinner(newBoard)
             /\ d.status = IF d.winner # "none" THEN "finished" ELSE "inProgress"]_vars

\* C4 witness: an accepted move completed a line or filled the board.
C4_Witness ==
  /\ last.op = "move" /\ last.outcome = "ok"
  /\ docs[1].status = "finished"
  /\ docs[1].winner \in {"X", "O", "Draw"}

\* The rows, columns and diagonals of the board, as sets of cells.
Rows == {{3 * r, 3 * r + 1, 3 * r + 2} : r \in 0 .. 2}
Columns == {{c, c + 3, c + 6} : c \in 0 .. 2}
Diagonals == {{0, 4, 8}, {2, 4, 6}}
Lines == Rows \cup Columns \cup Diagonals

\* Line l of board b holds three cells equal to m.
Holds(b, l, m) == \A i \in l : b[i] = m

\* C5: for every board of nine cells over empty, X and O, calculateWinner
\* returns a mark m only if one of the 8 lines holds three cells equal to m,
\* Draw exactly when no line is complete and all cells are filled, and none
\* otherwise (no line complete and a cell free).
C5_WinnerDetection ==
  scan.result # "unscanned" =>
    LET b == scan.squares
        complete == \E l \in Lines, m \in {"X", "O"} : Holds(b, l, m)
        full == \A i \in Cells : b[i] # Empty
    IN  /\ scan.result \in {"X", "O", "Draw", "none"}
        /\ scan.result \in {"X", "O"} => \E l \in Lines : Holds(b, l, scan.result)
        /\ scan.result = "Draw" <=> (~complete /\ full)
        /\ scan.result = "none" <=> (~complete /\ ~full)

\* C5 witness: the board [X,X,X,_,O,O,_,_,_] was scanned and gave X.
C5_Witness ==
  /\ scan.squares = [i \in Cells |-> IF i \in {0, 1, 2} THEN "X"
                                     ELSE IF i \in {4, 5} THEN "O" ELSE Empty]
  /\ scan.result = "X"

\* C6 as claimed: in every stored match document status is finished if and
\* only if winner is set.
C6_AsClaimed ==
  \A g \in GameIds :
    docs[g].exists => (docs[g].status = "finished" <=> docs[g].winner # "none")

\* C6 amended: in every stored match document status finished implies a winner
\* is set, and a set winner implies status is finished or inProgress (a join
\* written onto a finished match puts it back inProgress and keeps the winner).
C6_FinishedHasWinner ==
  \A g \in GameIds :
    docs[g].exists =>
      /\ docs[g].status = "finished" => docs[g].winner # "none"
      /\ docs[g].winner # "none" => docs[g].status \in {"finished", "inProgress"}

\* C6 witness: a stored match is finished with a winner after a move was written.
C6_Witness ==
  /\ docs[1].exists
  /\ docs[1].status = "finished"
  /\ docs[1].winner # "none"
  /\ budget.writes < MaxMidWrites

\* C7 as claimed: in every stored match document status is waiting if and only
\* if player2Id is null.
C7_AsClaimed ==
  \A g \in GameIds :
    docs[g].exists => (docs[g].status = "waiting" <=> docs[g].player2Id = Null)

\* C7 amended: in every stored match document status waiting implies player2Id
\* is null (a reset or a move written after player 2 left puts a match without
\* player 2 inProgress).
C7_WaitingHasNoPlayer2 ==
  \A g \in GameIds :
    docs[g].exists => (docs[g].status = "waiting" => docs[g].player2Id = Null)

\* C7 witness: a match that had been joined is waiting again, without player 2,
\* after a leave was written.
C7_Witness ==
  /\ last.op = "leave" /\ last.outcome \in {"promote", "remove"}
  /\ docs[1].exists
  /\ docs[1].status = "waiting"
  /\ docs[1].player2Id = Null

\* C8: after a user processes a snapshot of an existing match document, their
\* role is X if and only if they are the document's player1Id, O if and only if
\* they are its player2Id and not its player1Id, and none when they are neither.
C8_RoleFromSnapshot ==
  [][\A u \in Users :
       (last'.op = "snapshot" /\ last'.outcome = "exists" /\ Snapshot(u)) =>
         LET d == docs[gameId[u]]
             r == view'[u].playerRole
         IN  /\ r = "X" <=> d.player1Id = u
             /\ r = "O" <=> (d.player2Id = u /\ d.player1Id # u)
             /\ r = Null <=> (d.player1Id # u /\ d.player2Id # u)]_vars

\* C8 witness: after their snapshots one user has role X, one has role O and
\* one, in the same match, has none.
C8_Witness ==
  /\ last.op = "snapshot" /\ last.outcome = "exists"
  /\ \E u, v, w \in Users :
       /\ gameId[u] = 1 /\ gameId[v] = 1 /\ gameId[w] = 1
       /\ ~pending[u] /\ ~pending[v] /\ ~pending[w]
       /\ view[u].playerRole = "X"
       /\ view[v].playerRole = "O"
       /\ view[w].playerRole = Null

\* Both players of match g are set.
BothSet(g) ==
  docs[g].exists /\ docs[g].player1Id # Null /\ docs[g].player2Id # Null

\* C9 as claimed: while both players of a match are set, no join, move or reset
\* changes who is player1 or who is player2.
C9_AsClaimed ==
  [][\A g \in GameIds :
       (BothSet(g) /\ last'.op \in {"join", "move", "reset"}) =>
         /\ docs'[g].player1Id = docs[g].player1Id
         /\ docs'[g].player2Id = docs[g].player2Id]_vars

\* C9 amended: while both players of a match are set, no join, move or reset
\* changes who is player1, no move or reset changes who is player2, and a join
\* that is written makes the joiner player2.
C9_PlayersUnderJoinMoveReset ==
  [][\A g \in GameIds :
       (BothSet(g) /\ last'.op \in {"join", "move", "reset"}) =>
         /\ docs'[g].player1Id = docs[g].player1Id
         /\ docs'[g].player2Id =
              IF last'.op = "join" /\ last'.outcome = "ok"
              THEN last'.user ELSE docs[g].player2Id]_vars

\* C9 witness: a move was written to a match with both players set.
C9_Witness ==
  /\ last.op = "move" /\ last.outcome = "ok"
  /\ BothSet(1)
  /\ Count(docs[1].board, "X") = 1

\* C10: a successful createNewGame by user u adds a document with player1Id u,
\* player2Id null, nine empty cells, currentPlayer X, status waiting and no
\* winner, and makes it u's current game.
C10_CreateResult ==
  [][\A u \in Users :
       (last'.op = "create" /\ last'.user = u /\ last'.outcome = "ok"
        /\ CreateNewGame(u)) =>
         \E g \in GameIds :
           /\ ~docs[g].exists
           /\ docs'[g] = [exists |-> TRUE, player1Id |-> u, player2Id |-> Null,
                          board |-> [i \in Cells |-> Empty], currentPlayer |-> "X",
                          status |-> "waiting", winner |-> "none"]
           /\ \A h \in GameIds \ {g} : docs'[h] = docs[h]
           /\ gameId'[u] = g]_vars

\* C10 witness: createNewGame has just added a document.
C10_Witness ==
  /\ last.op = "create" /\ last.outcome = "ok"
  /\ docs[1].exists
  /\ gameId[docs[1].player1Id] = 1

\* C11 as claimed: a joinGame by a user who is the stored player1Id of the
\* match is rejected before any store call: the stored documents and the
\* user's current game are unchanged and the cannot-join notice is shown.
C11_AsClaimed ==
  [][\A u \in Users, g \in GameIds :
       (/\ last'.op = "join" /\ last'.user = u
        /\ docs[g].exists /\ docs[g].player1Id = u
        /\ JoinGame(u, g)) =>
         /\ docs' = docs
         /\ gameId' = gameId
         /\ notice'[u] = "cannotJoin"]_vars

\* C12: a joinGame that is written sets the stored player2Id to the joiner and
\* status to inProgress, and leaves the stored player1Id, board, currentPlayer
\* and winner as they were.
C12_JoinFrame ==
  [][\A u \in Users, g \in GameIds :
       (/\ last'.op = "join" /\ last'.user = u /\ last'.outcome = "ok"
        /\ JoinGame(u, g)) =>
         /\ docs'[g].exists
         /\ docs'[g].player2Id = u
         /\ docs'[g].status = "inProgress"
         /\ docs'[g].player1Id = docs[g].player1Id
         /\ docs'[g].board = docs[g].board
         /\ docs'[g].currentPlayer = docs[g].currentPlayer
         /\ docs'[g].winner = docs[g].winner]_vars

\* C12 witness: a join was just written to a match whose board holds a mark and
\* whose currentPlayer is O.
C12_Witness ==
  /\ last.op = "join" /\ last.outcome = "ok"
  /\ docs[1].player2Id = last.user
  /\ docs[1].player1Id # last.user
  /\ docs[1].status = "inProgress"
  /\ Count(docs[1].board, "X") = 1
  /\ docs[1].currentPlayer = "O"

\* C13: two users join the same waiting match: the second join is written like
\* the first, without arbitration, so the stored player2Id is the joiner whose
\* write came last and a snapshot is due to every user in the match; and a
\* joiner who has received the snapshots and is neither stored player holds no
\* role.
C13_LastJoinWins ==
  /\ [][\A u \in Users, g \in GameIds :
          (/\ last'.op = "join" /\ last'.user = u
           /\ docs[g].exists /\ docs[g].player2Id \notin {Null, u}
           /\ lobby[u][g].player1Id # u
           /\ JoinGame(u, g)) =>
            /\ last'.outcome = "ok"
            /\ docs'[g].player2Id = u
            /\ gameId'[u] = g
            /\ \A v \in Users : gameId[v] = g => pending'[v]]_vars
  /\ [](\A v \in Users :
          (/\ gameId[v] # NoGame /\ ~pending[v]
           /\ docs[gameId[v]].exists
           /\ docs[gameId[v]].player1Id # v
           /\ docs[gameId[v]].player2Id # v) =>
            view[v].playerRole = Null)

\* C13 witness: two users joined the match of a third; the stored player2Id is
\* one of them and the other, its snapshot received, holds no role.
C13_Witness ==
  \E u, v \in Users :
    /\ u # v
    /\ gameId[u] = 1 /\ gameId[v] = 1
    /\ docs[1].exists
    /\ docs[1].player1Id \notin {Null, u, v}
    /\ docs[1].player2Id = u
    /\ ~pending[v]
    /\ view[v].playerRole = Null
    /\ view[v].status = "inProgress"

\* A step in which leaveGame of user u, its getDoc done, runs to its end.
LeaveStep(u) ==
  /\ last'.op = "leave" /\ last'.user = u
  /\ LeaveWrite(u)

\* C14: leaveGame by a user whom the document it read has as player1Id, with
\* player2Id null, deletes the document from the store (so a leave by the
\* creator right after createNewGame leaves no document) and ends the caller's
\* current game.
C14_SolePlayerLeaveDeletes ==
  [][\A u \in Users :
       (/\ leaving[u].exists
        /\ leaving[u].player1Id = u
        /\ leaving[u].player2Id = Null
        /\ LeaveStep(u)) =>
         /\ last'.outcome = "delete"
         /\ ~docs'[leaving[u].game].exists
         /\ gameId'[u] = NoGame]_vars

\* C14 witness: the creator left right after createNewGame (two store writes)
\* and the store holds no document.
C14_Witness ==
  /\ last.op = "leave" /\ last.outcome = "delete"
  /\ budget.writes = MaxLeaveWrites - 2
  /\ nextId = 1
  /\ ~docs[1].exists
  /\ gameId[last.user] = NoGame

\* C15: leaveGame by a user whom the document it read has as player1Id, with a
\* player2Id set, writes that player2Id as player1Id, null as player2Id,
\* waiting as status and none as winner, so that the snapshot handler gives the
\* promoted user role X.
C15_Player1LeavePromotes ==
  [][\A u \in Users :
       (/\ leaving[u].exists
        /\ leaving[u].player1Id = u
        /\ leaving[u].player2Id # Null
        /\ docs[leaving[u].game].exists
        /\ LeaveStep(u)) =>
         LET d == docs'[leaving[u].game] IN
           /\ last'.outcome = "promote"
           /\ d.exists
           /\ d.player1Id = leaving[u].player2Id
           /\ d.player2Id = Null
           /\ d.status = "waiting"
           /\ d.winner = "none"
           /\ ViewOf(d, leaving[u].player2Id).playerRole = "X"]_vars

\* C15 witness: player 1 left a match that had a winner; the former player 2,
\* still in the match, is the stored player1Id and the winner is cleared.
C15_Witness ==
  /\ last.op = "leave" /\ last.outcome = "promote"
  /\ docs[1].exists
  /\ docs[1].player1Id \notin {Null, last.user}
  /\ gameId[docs[1].player1Id] = 1
  /\ docs[1].player2Id = Null
  /\ docs[1].status = "waiting"
  /\ docs[1].winner = "none"
  /\ calculateWinner(docs[1].board) # "none"

\* C16: leaveGame by a user whom the document it read has as player2Id (and not
\* as player1Id) writes null as player2Id, waiting as status and none as
\* winner, and leaves the stored player1Id as it was.
C16_Player2LeaveRemoves ==
  [][\A u \in Users :
       (/\ leaving[u].exists
        /\ leaving[u].player1Id # u
        /\ leaving[u].player2Id = u
        /\ docs[leaving[u].game].exists
        /\ LeaveStep(u)) =>
         LET d == docs'[leaving[u].game] IN
           /\ last'.outcome = "remove"
           /\ d.exists
           /\ d.player2Id = Null
           /\ d.status = "waiting"
           /\ d.winner = "none"
           /\ d.player1Id = docs[leaving[u].game].player1Id]_vars

\* C16 witness: player 2 left a match that had a winner; player 1 is still the
\* stored player1Id and the winner is cleared.
C16_Witness ==
  /\ last.op = "leave" /\ last.outcome = "remove"
  /\ docs[1].exists
  /\ docs[1].player1Id \notin {Null, last.user}
  /\ docs[1].player2Id = Null
  /\ docs[1].status = "waiting"
  /\ docs[1].winner = "none"
  /\ calculateWinner(docs[1].board) # "none"

\* C17: a leaveGame that does not delete the document leaves the stored board
\* and currentPlayer as they were, and a stored board that holds a mark is
\* emptied by resetCurrentGame alone.
C17_LeaveKeepsBoard ==
  [][\A g \in GameIds :
       /\ (last'.op = "leave" /\ docs[g].exists /\ docs'[g].exists) =>
            /\ docs'[g].board = docs[g].board
            /\ docs'[g].currentPlayer = docs[g].currentPlayer
       /\ (/\ docs[g].exists /\ docs'[g].exists
           /\ docs[g].board # EmptyBoard /\ docs'[g].board = EmptyBoard) =>
            (last'.op = "reset" /\ last'.outcome = "ok")]_vars

\* C17 witness: a leave was written to a match with currentPlayer O, whose
\* board still holds its marks.
C17_Witness ==
  /\ last.op = "leave" /\ last.outcome \in {"promote", "remove"}
  /\ docs[1].exists
  /\ docs[1].status = "waiting"
  /\ docs[1].board # EmptyBoard
  /\ docs[1].currentPlayer = "O"

\* C18 as claimed: once every user who was player 1 or player 2 of a match has
\* completed leaveGame the document is gone, whatever the interleaving.  A user
\* becomes a player by createNewGame or joinGame, which make the match their
\* current game, and while the document exists only a completed leaveGame ends
\* that; so a stored document has a user whose current game it is, or whose
\* leaveGame on it is under way.
C18_AsClaimed ==
  \A g \in GameIds :
    docs[g].exists =>
      \E u \in Users : gameId[u] = g \/ (leaving[u].read /\ leaving[u].game = g)

\* C19: resetCurrentGame writes to the store only for a caller whose role (as
\* its last snapshot gave it) is X or O, and a caller without a role changes
\* nothing; the write sets an empty board, currentPlayer X, no winner and
\* status inProgress and leaves player1Id and player2Id as they were.
C19_ResetByPlayerOnly ==
  [][\A u \in Users :
       (last'.op = "reset" /\ last'.user = u /\ ResetCurrentGame(u)) =>
         /\ view[u].playerRole = Null =>
              /\ last'.outcome = "rejected"
              /\ UNCHANGED <<docs, gameId, view, notice, pending, budget>>
         /\ (last'.outcome = "ok" \/ docs' # docs) =>
              /\ view[u].playerRole \in {"X", "O"}
              /\ docs' = [docs EXCEPT ![gameId[u]] =
                            [exists |-> TRUE,
                             player1Id |-> docs[gameId[u]].player1Id,
                             player2Id |-> docs[gameId[u]].player2Id,
                             board |-> [i \in Cells |-> Empty],
                             currentPlayer |-> "X",
                             status |-> "inProgress",
                             winner |-> "none"]]]_vars

\* C19 witness: after createNewGame, joinGame and a move, a reset was written:
\* the board is empty again, X is to move and both players are still set.
C19_Witness ==
  /\ last.op = "reset" /\ last.outcome = "ok"
  /\ budget.writes = MaxWrites - 4
  /\ docs[1].board = EmptyBoard
  /\ docs[1].currentPlayer = "X"
  /\ docs[1].status = "inProgress"
  /\ docs[1].player1Id # Null
  /\ docs[1].player2Id # Null
  /\ view[last.user].playerRole \in {"X", "O"}

\* C20: when the store call of createNewGame, joinGame, makeMove,
\* resetCurrentGame or leaveGame fails, the caller's current game and cached
\* match (board, currentPlayer, winner, status, role) are what they were, the
\* error notice is shown, nothing is written to the store and no store call of
\* the handler is left to come.
C20_FailureKeepsView ==
  [][\A u \in Users :
       (last'.outcome = "failed" /\ last'.user = u) =>
         /\ last'.op \in {"create", "join", "move", "reset", "leaveRead", "leave"}
         /\ gameId' = gameId
         /\ view' = view
         /\ notice'[u] = "error"
         /\ docs' = docs
         /\ pending' = pending
         /\ last'.op \in {"leaveRead", "leave"} => ~leaving'[u].read]_vars

\* C20 witness: the store rejected the move of a player whose turn it was; the
\* player is still in the match, in turn, with the error shown.
C20_Witness ==
  /\ last.op = "move" /\ last.outcome = "failed"
  /\ notice[last.user] = "error"
  /\ gameId[last.user] = 1
  /\ docs[1].exists
  /\ view[last.user].status = "inProgress"
  /\ view[last.user].playerRole = view[last.user].currentPlayer

\* C21 as claimed: a user's cached board changes only in a step in which a
\* snapshot is received; no handler changes it.
C21_AsClaimed ==
  [][\A u \in Users :
       view'[u].board # view[u].board => last'.op = "snapshot"]_vars

\* C21 amended: a user's cached board changes only when that user receives a
\* snapshot, or when that user's leaveGame completes, which sets it to the
\* empty board; createNewGame, joinGame, makeMove and resetCurrentGame never
\* change it.
C21_BoardFromSnapshotOrLeave ==
  [][\A u \in Users :
       view'[u].board # view[u].board =>
         \/ /\ last'.op = "snapshot"
            /\ gameId[u] # NoGame
            /\ pending[u] /\ ~pending'[u]
            /\ view'[u].board = IF docs[gameId[u]].exists
                                THEN docs[gameId[u]].board ELSE EmptyBoard
         \/ /\ last'.op = "leave" /\ last'.user = u
            /\ last'.outcome # "failed"
            /\ view'[u].board = EmptyBoard
            /\ gameId'[u] = NoGame]_vars

\* C21 witness: a move was written and its snapshot then brought the mark to a
\* user's cached board.
C21_Witness ==
  /\ last.op = "snapshot" /\ last.outcome = "exists"
  /\ \E u \in Users :
       /\ gameId[u] = 1 /\ ~pending[u]
       /\ view[u].board = docs[1].board
       /\ Count(view[u].board, "X") = 1

\* The square marked by the accepted move that was the last step: the square in
\* which the stored board differs from the board state of its writer.
EarlierCell == CHOOSE j \in Cells :
                 docs[gameId[last.user]].board[j] # view[last.user].board[j]

\* An accepted move by u on square i that directly follows an accepted move to
\* the same game: u has not received the snapshot of the earlier write.
RacingMove(u, i) ==
  /\ last.op = "move" /\ last.outcome = "ok"
  /\ gameId[u] # NoGame /\ gameId[u] = gameId[last.user]
  /\ pending[u]
  /\ AcceptedMove(u, i)

\* C23 as claimed: when two moves are both accepted before the snapshot of the
\* earlier write reaches the later writer, the stored fields are those of the
\* later write and the earlier move's mark is not in the stored board.
C23_AsClaimed ==
  [][\A u \in Users, i \in Cells :
       RacingMove(u, i) =>
         LET g == gameId[u]
             j == EarlierCell
         IN  /\ docs'[g].board = [view[u].board EXCEPT ![i] = view[u].playerRole]
             /\ docs'[g].board[j] # docs[g].board[j]]_vars

\* C23 amended: when two moves are both accepted before the snapshot of the
\* earlier write reaches the later writer, the store applies both in order and
\* the stored board, currentPlayer, winner and status are those of the later
\* write, computed from the later writer's board state alone.  The earlier
\* move's mark stays in the stored board only if the later write itself puts
\* the same mark on the same square or the later writer's board state already
\* held it there.
C23_LastMoveWins ==
  [][\A u \in Users, i \in Cells :
       RacingMove(u, i) =>
         LET g == gameId[u]
             j == EarlierCell
             m == docs[g].board[j]
             r == view[u].playerRole
             b == [c \in Cells |-> IF c = i THEN r ELSE view[u].board[c]]
         IN  /\ docs'[g].board = b
             /\ docs'[g].currentPlayer = OtherMark(r)
             /\ docs'[g].winner = calculateWinner(b)
             /\ docs'[g].status = IF calculateWinner(b) # "none"
                                  THEN "finished" ELSE "inProgress"
             /\ docs'[g].board[j] = m <=> ((i = j /\ r = m) \/ view[u].board[j] = m)
             /\ i # j /\ view[u].board[j] = Empty => docs'[g].board[j] = Empty]_vars

\* C23 witness: X was written to square 0 and seen by the other player, then
\* the same writer, whose board state was still empty, wrote X to square 1: the
\* stored board holds the later mark alone.
C23_Witness ==
  /\ last.op = "move" /\ last.outcome = "ok"
  /\ \E u \in Users, v \in Users :
       /\ u # v /\ last.user = u
       /\ gameId[u] = 1 /\ gameId[v] = 1
       /\ pending[u] /\ view[u].board = EmptyBoard
       /\ view[v].board = [EmptyBoard EXCEPT ![0] = "X"]
       /\ docs[1].board = [EmptyBoard EXCEPT ![1] = "X"]

\* C26: every stored game document has a player1Id that is not null, after
\* creation and after every join and leave, the promotion of player2 included.
C26_Player1AlwaysSet ==
  \A g \in GameIds : docs[g].exists => docs[g].player1Id \in Users

\* C26 witness: player1 has left a game with two players and the document that
\* remains has the former player2 as player1.
C26_Witness ==
  /\ last.op = "leave" /\ last.outcome = "promote"
  /\ docs[1].exists
  /\ docs[1].player1Id \in Users \ {last.user}
  /\ docs[1].player2Id = Null

\* C30 as claimed: in every reachable state the stored winner of a game is the
\* result of the line scan of its stored board.
C30_AsClaimed ==
  \A g \in GameIds : docs[g].exists => docs[g].winner = calculateWinner(docs[g].board)

\* C30 amended: in every reachable state the stored winner of a game is either
\* none or the result of the line scan of its stored board; after an accepted
\* move it is the result of the line scan.  A leave clears the winner and keeps
\* the board, so a stored board with a completed line or no empty square can
\* have winner none.
C30_WinnerIsScanOrNone ==
  /\ \A g \in GameIds :
       docs[g].exists =>
         \/ docs[g].winner = "none"
         \/ docs[g].winner = calculateWinner(docs[g].board)
  /\ \A g \in GameIds :
       (last.op = "move" /\ last.outcome = "ok" /\ gameId[last.user] = g) =>
         docs[g].winner = calculateWinner(docs[g].board)

\* C30 witness: a move has completed a line and the stored winner is the mark
\* found by the line scan.
C30_Witness ==
  /\ last.op = "move" /\ last.outcome = "ok"
  /\ docs[1].exists
  /\ docs[1].winner \in {"X", "O"}
  /\ docs[1].winner = calculateWinner(docs[1].board)

\* The number of moves accepted so far in a match played from the empty board.
MovesMade == MaxPlayMoves - budget.writes

\* C22 as claimed: in a match played from the empty board by accepted moves
\* whose marks alternate, X first, while no move completes a line, the stored
\* game is inProgress without winner after each of the first eight moves and
\* finished with winner Draw after the ninth.
C22_AsClaimed ==
  docs[1].winner \notin {"X", "O"} =>
    /\ MovesMade = NumCells => docs[1].status = "finished" /\ docs[1].winner = "Draw"
    /\ MovesMade < NumCells => docs[1].status = "inProgress" /\ docs[1].winner = "none"

\* C22 amended: the same, for moves each of which is made from a board state
\* that holds every earlier move (the stored board then holds one mark for each
\* move made).  A move made from an older board state is accepted too and
\* overwrites the marks its writer has not seen; nine accepted moves then leave
\* free squares and no Draw.
C22_NineFreshMovesDraw ==
  (/\ docs[1].winner \notin {"X", "O"}
   /\ Count(docs[1].board, "X") + Count(docs[1].board, "O") = MovesMade) =>
    /\ MovesMade = NumCells => docs[1].status = "finished" /\ docs[1].winner = "Draw"
    /\ MovesMade < NumCells => docs[1].status = "inProgress" /\ docs[1].winner = "none"

\* C22 witness: nine moves have been accepted, the stored board is full without
\* a complete line and the stored game is finished with winner Draw.
C22_Witness ==
  /\ MovesMade = NumCells
  /\ last.op = "move" /\ last.outcome = "ok"
  /\ Count(docs[1].board, "X") = 5 /\ Count(docs[1].board, "O") = 4
  /\ \A k \in 1 .. Len(WinLines) : ~LineComplete(docs[1].board, k)
  /\ docs[1].status = "finished" /\ docs[1].winner = "Draw"

\* In this step user u leaves the scope of its current game: its leaveGame
\* completes, or it receives the snapshot that says the document is gone, or it
\* clicks Back to Hub.
ExitStep(u) ==
  /\ gameId[u] # NoGame
  /\ \/ last'.op = "leave" /\ last'.user = u /\ last'.outcome # "failed"
     \/ last'.op = "snapshot" /\ last'.outcome = "gone" /\ pending[u] /\ ~pending'[u]
     \/ last'.op = "back" /\ last'.user = u

\* C24: on every exit path (a leaveGame that completes, the document found
\* deleted, Back to Hub) the user is left without current game and so without
\* subscription to a game document; while a user has no current game no
\* snapshot of a game document is due to it, and the delivery of a snapshot to
\* another user changes nothing of its state.
C24_ExitCancelsSubscription ==
  /\ [][\A u \in Users :
          /\ ExitStep(u) => gameId'[u] = NoGame /\ ~pending'[u]
          /\ (gameId[u] = NoGame /\ last'.op = "snapshot") =>
               /\ gameId'[u] = NoGame
               /\ view'[u] = view[u]
               /\ notice'[u] = notice[u]]_vars
  /\ [](\A u \in Users : gameId[u] = NoGame => ~pending[u] /\ ~ENABLED Snapshot(u))

\* C24 witness: a user has left a game that goes on to exist; a snapshot of the
\* leave is due to the player that stays and none is due to the leaver.
C24_Witness ==
  /\ last.op = "leave" /\ last.outcome \in {"promote", "remove"}
  /\ gameId[last.user] = NoGame /\ ~pending[last.user]
  /\ view[last.user] = NoView
  /\ docs[1].exists
  /\ \E v \in Users \ {last.user} : gameId[v] = 1 /\ pending[v]

\* C27: for every origin and target the bearing b that getQiblaAngle returns
\* has 0 <= b < 360 degrees; for identical origin and target it is 0; from
\* (0, 0) it is 90 to (0, 90) and 0 to the north pole (90, 0).
C27_BearingRange ==
  brg.called =>
    /\ 0 <= brg.result /\ brg.result < 360 * Deg
    /\ (brg.lat1 = brg.lat2 /\ brg.lon1 = brg.lon2) => brg.result = 0
    /\ (brg.lat1 = 0 /\ brg.lon1 = 0 /\ brg.lat2 = 0 /\ brg.lon2 = 90 * Deg) =>
         brg.result = 90 * Deg
    /\ (brg.lat1 = 0 /\ brg.lon1 = 0 /\ brg.lat2 = 90 * Deg /\ brg.lon2 = 0) =>
         brg.result = 0

\* C27 witness: getQiblaAngle has returned a bearing beyond 180 degrees, for a
\* target to the west of the origin.
C27_Witness ==
  /\ brg.called
  /\ brg.lat1 = qiblaLat /\ brg.lon1 = qiblaLon
  /\ brg.lat2 = 515074 /\ brg.lon2 = -1278
  /\ brg.result > 180 * Deg /\ brg.result < 360 * Deg

\* C28 as claimed: on an orientation event with a heading alpha the rotation of
\* the indicator becomes b - alpha, not normalised, for b the bearing that
\* getQiblaAngle returned for the position of the user.
C28_AsClaimed ==
  [][\A alpha \in Alphas \ {NullAlpha} :
       (compass.listening /\ DeviceOrientation(alpha)) =>
         compass'.rotation
           = getQiblaAngle(compass.lat, compass.lon, qiblaLat, qiblaLon) - alpha]_vars

\* C29: an orientation event whose alpha is null leaves the rotation of the
\* indicator, and the rest of the page, as it is; an orientation event that
\* comes before showPosition has run changes nothing, and until then no
\* listener is registered and no rotation is set.
C29_NullAlphaKeepsRotation ==
  /\ [][/\ (last'.op = "orientation" /\ last'.outcome = "null") => compass' = compass
        /\ (last'.op = "orientation" /\ compass.located # "shown") =>
             /\ compass' = compass
             /\ last'.outcome = "unheard"]_vars
  /\ [](compass.located # "shown" =>
          ~compass.listening /\ compass.rotation = 0 /\ compass.text = 0)

\* C29 witness: after a position fix an event with heading 90 has turned the
\* indicator, and an event with alpha null has then left it there.
C29_Witness ==
  /\ last.op = "orientation" /\ last.outcome = "null"
  /\ compass.located = "shown" /\ compass.listening
  /\ compass.rotation = parseFloat(compass.text) - 90 * Deg
  /\ compass.rotation # getQiblaAngle(compass.lat, compass.lon, qiblaLat, qiblaLon)

\* C25 as claimed: the stored lastMoveAt of a game document never decreases,
\* whichever users write (create, join, move, reset, leave), each write being
\* stamped with the clock of its writer.
C25_AsClaimed ==
  [][\A g \in GameIds :
       (docs[g].exists /\ docs'[g].exists) => lastMoveAt'[g] >= lastMoveAt[g]]_vars

\* C31: in every stored game document the board holds as many X as O when
\* currentPlayer is X, and one X more than O when currentPlayer is O.
C31_MarksMatchTurn ==
  \A g \in GameIds :
    docs[g].exists =>
      /\ docs[g].currentPlayer \in {"X", "O"}
      /\ docs[g].currentPlayer = "X" =>
           Count(docs[g].board, "X") = Count(docs[g].board, "O")
      /\ docs[g].currentPlayer = "O" =>
           Count(docs[g].board, "X") = Count(docs[g].board, "O") + 1

\* C31 witness: X has moved and player1 has then left; the document that stays
\* holds one X more than O and currentPlayer is O.
C31_Witness ==
  /\ last.op = "leave" /\ last.outcome = "promote"
  /\ docs[1].exists /\ docs[1].player1Id = "bob"
  /\ docs[1].currentPlayer = "O"
  /\ Count(docs[1].board, "X") = Count(docs[1].board, "O") + 1
  /\ budget.writes = 0

\* C32 as claimed: no stored game document has the same user as player1Id and
\* as player2Id, whatever the interleaving of joins (decided from the lobby
\* list of the caller) and leaves (a read followed by a write).
C32_AsClaimed ==
  \A g \in GameIds :
    docs[g].exists => docs[g].player1Id # docs[g].player2Id

\* C33 as claimed: every move and every reset that is written to a stored game
\* document is made by a user who is the player1Id or the player2Id of the
\* document as stored when the write is applied; a user who is no longer, or
\* never was, a player of the stored document does not change it.
C33_AsClaimed ==
  [][\A u \in Users :
       (/\ last'.op \in {"move", "reset"} /\ last'.user = u /\ last'.outcome = "ok"
        /\ gameId[u] # NoGame) =>
         u \in {docs[gameId[u]].player1Id, docs[gameId[u]].player2Id}]_vars

\* C34: a user who receives the snapshot that says the document of its current
\* game does not exist is left without current game, with the empty board,
\* currentPlayer X, no winner, status waiting, no role and no opponent, and
\* with the Game Ended notice.
C34_GoneSnapshotResets ==
  [][\A u \in Users :
       (/\ last'.op = "snapshot"
        /\ gameId[u] # NoGame /\ pending[u] /\ ~pending'[u]
        /\ ~docs[gameId[u]].exists) =>
         /\ last'.outcome = "gone"
         /\ gameId'[u] = NoGame
         /\ view'[u] = [board |-> [i \in Cells |-> Empty], currentPlayer |-> "X",
                        winner |-> "none", status |-> "waiting",
                        playerRole |-> Null, opponentId |-> Null]
         /\ notice'[u] = "gameEnded"]_vars

\* C34 witness: the document of a game has been deleted by the leaveGame of its
\* player, the last of the writes of the run, and a user who had it as current
\* game has received the snapshot that says so.
C34_Witness ==
  /\ last.op = "snapshot" /\ last.outcome = "gone"
  /\ ~docs[1].exists /\ nextId = 1
  /\ budget.writes = 0
  /\ \E u \in Users :
       /\ notice[u] = "gameEnded" /\ gameId[u] = NoGame /\ view[u] = NoView

\* User u has the stored document of its current game in its state: the board,
\* currentPlayer, winner and status of the document, and the role that the
\* stored players give it.
InSync(u) ==
  (gameId[u] # NoGame /\ docs[gameId[u]].exists) =>
    LET d == docs[gameId[u]] IN
      /\ view[u].board = d.board
      /\ view[u].currentPlayer = d.currentPlayer
      /\ view[u].winner = d.winner
      /\ view[u].status = d.status
      /\ view[u].playerRole = IF d.player1Id = u THEN "X"
                              ELSE IF d.player2Id = u THEN "O" ELSE Null

\* C35: if the store delivers every snapshot that is due, then once the writes
\* to the documents have stopped (a run makes finitely many) every user with a
\* current game comes to hold, and keeps, the board, currentPlayer, winner and
\* status of the stored document and the role the stored players give it.
C35_EventuallyInSync ==
  (<>[][docs' = docs]_vars) => <>[](\A u \in Users : InSync(u))

\* C35 witness: a move has been written and both players hold the stored
\* document with its marks, no snapshot being due.
C35_Witness ==
  /\ docs[1].exists /\ docs[1].board # EmptyBoard
  /\ \E u, v \in Users :
       /\ u # v /\ gameId[u] = 1 /\ gameId[v] = 1
       /\ ~pending[u] /\ ~pending[v]
       /\ InSync(u) /\ InSync(v)
       /\ view[u].playerRole = "X" /\ view[v].playerRole = "O"

\* C36 as claimed: in the single-player game every click on an empty square,
\* while the game is not over, places X; if that move does not end the game a
\* computer move is set to follow, which places one O on an empty square and
\* gives the turn back to X; a click never places O.
C36_AsClaimed ==
  [][/\ \A i \in Cells :
          (/\ last'.op = "click"
           /\ single.winner = "none" /\ single.board[i] = Empty
           /\ handleClick(i)) =>
            /\ single'.board = [single.board EXCEPT ![i] = "X"]
            /\ single'.winner = "none" =>
                 single'.timers = Append(single.timers, single'.board)
     /\ last'.op = "computer" =>
          /\ single'.xIsNext
          /\ \E k \in Cells :
               /\ single.board[k] = Empty
               /\ single'.board = [single.board EXCEPT ![k] = "O"]]_vars

\* C37 as claimed: in the single-player game no step but Reset removes or
\* changes a mark of the board, whatever the order of clicks, Reset and the
\* delayed computer move; and the delayed computer move places no mark if the
\* board was reset, or the game ended, after the move was set.
C37_AsClaimed ==
  [][/\ last'.op # "singleReset" =>
          \A j \in Cells : single.board[j] # Empty => single'.board[j] = single.board[j]
     /\ (/\ last'.op = "computer"
         /\ \/ single.winner # "none"
            \/ \E j \in Cells : Head(single.timers)[j] # single.board[j]) =>
          single'.board = single.board]_vars

====
